---------------------------- MODULE Spec2Model ----------------------------
(***************************************************************************)
(* DREME (src/dreme.py): discriminative regular-expression motif search.   *)
(*                                                                         *)
(* Strings are sequences of one-character strings.  A log-probability is   *)
(* kept as the pair <<num, den>> of the probability num/den it is the log  *)
(* of, so that sums of logs are products and comparisons are exact; the    *)
(* sentinel 1e300 of output_best_re is the pair <<1, 0>>.                  *)
(***************************************************************************)
EXTENDS Naturals, Integers, Sequences, FiniteSets, TLC

VARIABLES
    cfg,                \* the options of main() after normalisation
    pos_seqs,           \* main: pos_seqs (erased in place)
    neg_seqs,           \* main: neg_seqs (erased in place)
    unerased_pos_seqs,  \* global: deep copy taken before the loop
    unerased_neg_seqs,  \* global: deep copy taken before the loop
    nmotifs,            \* main: nmotifs
    stop_cause,         \* main: stop_cause ("" while the loop runs)
    pc,                 \* position of the main thread
    re_pvalues,         \* find_print: the pattern-record table of the iteration
    best,               \* output_best_re: its locals / the tuple find_print returns
    now,                \* wall clock, in ticks since start_time
    alarm,              \* tick at which SIGALRM is due, 0 when no alarm is pending
    xml_out,            \* the motifs written so far, each with a "complete" flag
    hist,               \* history of the run (searches started, last emission, ...)
    call                \* a single call of one function: its arguments and result

vars == <<cfg, pos_seqs, neg_seqs, unerased_pos_seqs, unerased_neg_seqs, nmotifs,
          stop_cause, pc, re_pvalues, best, now, alarm, xml_out, hist, call>>

loopVars == <<cfg, pos_seqs, neg_seqs, unerased_pos_seqs, unerased_neg_seqs, nmotifs,
              stop_cause, pc, re_pvalues, best, now, alarm, xml_out, hist>>

-----------------------------------------------------------------------------
(* Bounds of the model.                                                    *)

MaxCount == 4       \* getLogPvalue is called with 0 <= p <= P <= MaxCount, same for n, N
CensusMaxLen == 3   \* the census is run on sequences of at most this length
CensusNumSeqs == 2  \* ... on lists of this many sequences
StrandMaxLen == 2   \* IUPAC patterns checked for strand symmetry have at most this length
GenMaxLen == 2      \* the generalizer is run on sequences of at most this length
GenNumPos == 2      \* ... with this many positive sequences
GenNegLen == 1      \* ... and one negative sequence of at most this length
GenBeam == 3        \* ... and with ngen = 1 or this beam size
GenDeepLen == 3     \* ... and on sequences over two bases of this length
LoopSeqLen == 2     \* the find-erase loop is run on sequences of 1..LoopSeqLen letters
LoopMaxW == 2       \* ... with maxw = maxk = LoopMaxW
MaxNow == 3         \* the wall clock stops after this many ticks
TicksPerSecond == 2 \* resolution of the wall clock (int(remaining) truncates to seconds)

-----------------------------------------------------------------------------
(* Alphabets and strings.                                                  *)

_dna_alphabet == <<"A", "C", "G", "T">>

_ambig_to_dna ==
    [c \in {"A","C","G","T","R","Y","K","M","S","W","B","D","H","V","N"} |->
        CASE c = "A" -> {"A"}
          [] c = "C" -> {"C"}
          [] c = "G" -> {"G"}
          [] c = "T" -> {"T"}
          [] c = "R" -> {"A","G"}
          [] c = "Y" -> {"C","T"}
          [] c = "K" -> {"G","T"}
          [] c = "M" -> {"A","C"}
          [] c = "S" -> {"C","G"}
          [] c = "W" -> {"A","T"}
          [] c = "B" -> {"C","G","T"}
          [] c = "D" -> {"A","G","T"}
          [] c = "H" -> {"A","C","T"}
          [] c = "V" -> {"A","C","G"}
          [] c = "N" -> {"A","C","G","T"}]

Iupac == DOMAIN _ambig_to_dna

_alph == {"A", "C", "G", "T"}

\* the ambiguity codes with the triples and N ahead of the doublets
_dna_ambigs_TriplesFirst == <<"B","D","H","V","N","R","Y","K","M","S","W">>

_dna_ambigs == <<"R","Y","K","M","S","W","B","D","H","V","N">>

_dna_ambig_mappings ==
    [c \in {"R","M","W","Y","S","K","H","V","D","B","N"} |->
        CASE c = "R" -> <<"A","G">>
          [] c = "M" -> <<"A","C">>
          [] c = "W" -> <<"A","T">>
          [] c = "Y" -> <<"C","T">>
          [] c = "S" -> <<"C","G">>
          [] c = "K" -> <<"G","T">>
          [] c = "H" -> <<"A","Y">>
          [] c = "V" -> <<"A","S">>
          [] c = "D" -> <<"A","K">>
          [] c = "B" -> <<"C","K">>
          [] c = "N" -> <<"A","B">>]

\* the character code that Python's string comparison uses
Ord(c) ==
    CASE c = "A" -> 65 [] c = "B" -> 66 [] c = "C" -> 67 [] c = "D" -> 68
      [] c = "G" -> 71 [] c = "H" -> 72 [] c = "K" -> 75 [] c = "M" -> 77
      [] c = "N" -> 78 [] c = "R" -> 82 [] c = "S" -> 83 [] c = "T" -> 84
      [] c = "V" -> 86 [] c = "W" -> 87 [] c = "Y" -> 89

RECURSIVE StrLessFrom(_, _, _)
StrLessFrom(a, b, i) ==
    IF i > Len(a) THEN i <= Len(b)
    ELSE IF i > Len(b) THEN FALSE
    ELSE IF a[i] = b[i] THEN StrLessFrom(a, b, i + 1)
    ELSE Ord(a[i]) < Ord(b[i])

\* a < b for Python strings
StrLess(a, b) == StrLessFrom(a, b, 1)

\* min(a, b) for Python strings
StrMin(a, b) == IF StrLess(b, a) THEN b ELSE a

\* s[i:j] with 0-based Python slice bounds, 0 <= i <= j <= len(s)
Slice(s, i, j) == [x \in 1..(j - i) |-> s[i + x]]

\* a single N whatever the width of the pattern
Ns_Single(k) == IF k = 0 THEN <<>> ELSE <<"N">>

\* k * 'N'
Ns(k) == [x \in 1..k |-> "N"]

\* the translation table of get_rc with V sent to D instead of B
Complement_Typo(c) ==
    CASE c = "A" -> "T" [] c = "C" -> "G" [] c = "G" -> "C" [] c = "T" -> "A"
      [] c = "R" -> "Y" [] c = "Y" -> "R" [] c = "K" -> "M" [] c = "M" -> "K"
      [] c = "B" -> "V" [] c = "V" -> "D" [] c = "D" -> "H" [] c = "H" -> "D"
      [] c = "S" -> "S" [] c = "W" -> "W" [] c = "N" -> "N"

\* the translation table of get_rc
Complement(c) ==
    CASE c = "A" -> "T" [] c = "C" -> "G" [] c = "G" -> "C" [] c = "T" -> "A"
      [] c = "R" -> "Y" [] c = "Y" -> "R" [] c = "K" -> "M" [] c = "M" -> "K"
      [] c = "B" -> "V" [] c = "V" -> "B" [] c = "D" -> "H" [] c = "H" -> "D"
      [] c = "S" -> "S" [] c = "W" -> "W" [] c = "N" -> "N"

get_rc(re) == [x \in 1..Len(re) |-> Complement(re[Len(re) + 1 - x])]

-----------------------------------------------------------------------------
(* Log-probabilities.                                                      *)

Log1 == <<1, 1>>            \* log_pvalue = 0, the p-value 1
Sentinel == <<1, 0>>        \* 1e300

IsSentinel(x) == x[2] = 0

\* x < y, x <= y, x = y as floats
LogLess(x, y) ==
    IF IsSentinel(x) THEN FALSE
    ELSE IF IsSentinel(y) THEN TRUE
    ELSE x[1] * y[2] < y[1] * x[2]

LogEq(x, y) ==
    IF IsSentinel(x) \/ IsSentinel(y) THEN IsSentinel(x) /\ IsSentinel(y)
    ELSE x[1] * y[2] = y[1] * x[2]

LogLeq(x, y) == LogLess(x, y) \/ LogEq(x, y)

\* x + log(k)
LogPlusLogOf(x, k) == IF IsSentinel(x) THEN x ELSE <<x[1] * k, x[2]>>

RECURSIVE Choose(_, _)
Choose(n, k) ==
    IF k < 0 \/ k > n THEN 0
    ELSE IF k = 0 THEN 1
    ELSE (Choose(n - 1, k - 1) * n) \div k

RECURSIVE TailSum(_, _, _, _)
TailSum(P, N, m, k) ==
    IF k > P \/ k > m THEN 0
    ELSE Choose(P, k) * Choose(N, m - k) + TailSum(P, N, m, k + 1)

\* log_getFETprob(a1, a2, b1, b2)[4]: the log of the probability that, of the
\* b1 + b2 positives, at least b2 are among the a2 + b2 successes
log_getFETprob(a1, a2, b1, b2) ==
    <<TailSum(b1 + b2, a1 + a2, a2 + b2, b2), Choose(a1 + a2 + b1 + b2, a2 + b2)>>

\* getLogPvalue testing p/P >= n/N instead of p/P > n/N
getLogPvalueTraced_GeqTest(p, P, n, N) ==
    IF p * N >= n * P
    THEN [value |-> log_getFETprob(N - n, n, P - p, p), fet |-> 1]
    ELSE [value |-> Log1, fet |-> 0]

\* getLogPvalue with the number of calls it makes to log_getFETprob
getLogPvalueTraced(p, P, n, N) ==
    IF p * N > n * P
    THEN [value |-> log_getFETprob(N - n, n, P - p, p), fet |-> 1]
    ELSE [value |-> Log1, fet |-> 0]

getLogPvalue(p, P, n, N) == getLogPvalueTraced(p, P, n, N).value

-----------------------------------------------------------------------------
(* Matching of IUPAC patterns (Python's re on the expanded classes).       *)

\* the compiled RE: the alternatives in the order of the alternation
make_dna_re(iupac_re, given_only, complete) ==
    [alts |-> IF given_only THEN <<iupac_re>> ELSE <<iupac_re, get_rc(iupac_re)>>,
     complete |-> complete]

\* the character classes of pat match s at the 0-based offset i
MatchAt(pat, s, i) ==
    /\ i + Len(pat) <= Len(s)
    /\ \A k \in 1..Len(pat) : s[i + k] \in _ambig_to_dna[pat[k]]

\* some alternative of ms matches s at offset i
AltMatchAt(ms, s, i) == \E a \in 1..Len(ms.alts) : MatchAt(ms.alts[a], s, i)

\* ms.search(s) is not None
re_search(ms, s) ==
    IF ms.complete
    THEN \E a \in 1..Len(ms.alts) : Len(ms.alts[a]) = Len(s) /\ MatchAt(ms.alts[a], s, 0)
    ELSE \E i \in 0..Len(s) : AltMatchAt(ms, s, i)

RECURSIVE re_sub_from(_, _, _, _, _)
re_sub_from(ms, w, repl, s, i) ==
    IF i >= Len(s) THEN <<>>
    ELSE IF w > 0 /\ AltMatchAt(ms, s, i)
         THEN repl \o re_sub_from(ms, w, repl, s, i + w)
         ELSE <<s[i + 1]>> \o re_sub_from(ms, w, repl, s, i + 1)

\* ms.sub(ens, s) replacing the first match only
re_sub_FirstOnly(ms, repl, s) ==
    LET w == Len(ms.alts[1])
        hits == {i \in 0..Len(s) : AltMatchAt(ms, s, i)}
    IN IF w = 0 \/ hits = {} THEN s
       ELSE LET i == CHOOSE x \in hits : \A y \in hits : x <= y
            IN SubSeq(s, 1, i) \o repl \o SubSeq(s, i + w + 1, Len(s))

\* ms.sub(repl, s): leftmost non-overlapping matches replaced; every
\* alternative of ms has the width w of the pattern
re_sub(ms, repl, s) == re_sub_from(ms, Len(ms.alts[1]), repl, s, 0)

count_seqs_matching_iupac_re(re, pos, neg, given_only) ==
    LET ms == make_dna_re(re, given_only, FALSE)
    IN <<Cardinality({k \in 1..Len(pos) : re_search(ms, pos[k])}),
         Cardinality({k \in 1..Len(neg) : re_search(ms, neg[k])})>>

\* the record (p, P, n, N, log_pvalue)
compute_exact_re_enrichment(re, pos, neg, given_only) ==
    LET pn == count_seqs_matching_iupac_re(re, pos, neg, given_only)
    IN <<pn[1], Len(pos), pn[2], Len(neg), getLogPvalue(pn[1], Len(pos), pn[2], Len(neg))>>

-----------------------------------------------------------------------------
(* Word census.                                                            *)

\* the dictionary d with d[key] = val
DictPut(d, key, val) ==
    [x \in (DOMAIN d) \cup {key} |-> IF x = key THEN val ELSE d[x]]

\* update_seqs_with_words counting every occurrence (no last_seq test)
update_seqs_with_words_NoMark(seqs_with_words, word0, seq_no, given_only) ==
    LET word == IF given_only THEN word0 ELSE StrMin(word0, get_rc(word0))
    IN IF word \in DOMAIN seqs_with_words
       THEN DictPut(seqs_with_words, word, <<seqs_with_words[word][1] + 1, seq_no>>)
       ELSE DictPut(seqs_with_words, word, <<1, seq_no>>)

update_seqs_with_words(seqs_with_words, word0, seq_no, given_only) ==
    LET word == IF given_only THEN word0 ELSE StrMin(word0, get_rc(word0))
    IN IF word \in DOMAIN seqs_with_words
       THEN IF seqs_with_words[word][2] < seq_no
            THEN DictPut(seqs_with_words, word, <<seqs_with_words[word][1] + 1, seq_no>>)
            ELSE seqs_with_words
       ELSE DictPut(seqs_with_words, word, <<1, seq_no>>)

HasN(word) == \E k \in 1..Len(word) : word[k] = "N"

RECURSIVE CensusWords(_, _, _, _, _, _)
\* for i in range(i, slen-w+1)
CensusWords(d, s, w, seq_no, i, given_only) ==
    IF i >= Len(s) - w + 1 THEN d
    ELSE LET word == Slice(s, i, i + w)
         IN CensusWords(IF HasN(word) THEN d
                        ELSE update_seqs_with_words(d, word, seq_no, given_only),
                        s, w, seq_no, i + 1, given_only)

RECURSIVE CensusSeqs(_, _, _, _, _)
\* for s in seqs, seq_no being the 1-based index of s
CensusSeqs(d, seqs, w, seq_no, given_only) ==
    IF seq_no > Len(seqs) THEN d
    ELSE CensusSeqs(CensusWords(d, seqs[seq_no], w, seq_no, 0, given_only),
                    seqs, w, seq_no + 1, given_only)

RECURSIVE CensusWidths(_, _, _, _, _)
\* for w in range(w, maxw+1)
CensusWidths(d, seqs, w, maxw, given_only) ==
    IF w > maxw THEN d
    ELSE CensusWidths(CensusSeqs(d, seqs, w, 1, given_only), seqs, w + 1, maxw, given_only)

count_seqs_with_words(seqs, minw, maxw, given_only) ==
    CensusWidths(<<>>, seqs, minw, maxw, given_only)

apply_fisher_test(pos_sequence_counts, neg_sequence_counts, P, N) ==
    [word \in DOMAIN pos_sequence_counts |->
        LET p == pos_sequence_counts[word][1]
            n == IF word \in DOMAIN neg_sequence_counts
                 THEN neg_sequence_counts[word][1] ELSE 0
        IN <<p, P, n, N, getLogPvalue(p, P, n, N)>>]

-----------------------------------------------------------------------------
(* Ambiguity generalizer.                                                  *)

\* the order by p-value with ties going to the larger pattern
KeyLeq_TiesToLarger(d, x, y) ==
    \/ LogLess(d[x][5], d[y][5])
    \/ LogEq(d[x][5], d[y][5]) /\ (x = y \/ StrLess(y, x))

\* the order of sorted_re_pvalue_keys: cmp(log_pvalue) or cmp(pattern)
KeyLeq(d, x, y) ==
    \/ LogLess(d[x][5], d[y][5])
    \/ LogEq(d[x][5], d[y][5]) /\ (x = y \/ StrLess(x, y))

RECURSIVE SortKeys(_, _)
SortKeys(S, d) ==
    IF S = {} THEN <<>>
    ELSE LET m == CHOOSE x \in S : \A y \in S : KeyLeq(d, x, y)
         IN <<m>> \o SortKeys(S \ {m}, d)

sorted_re_pvalue_keys(re_pv) == SortKeys(DOMAIN re_pv, re_pv)

\* keys[:] instead of keys[:k]
Take_Whole(keys, k) == keys

\* keys[:k]
Take(keys, k) == SubSeq(keys, 1, IF k < Len(keys) THEN k ELSE Len(keys))

\* re[:i] + k + re[i+1:] with the 0-based column i
Subst(re, i, k) == [x \in 1..Len(re) |-> IF x = i + 1 THEN k ELSE re[x]]

\* int(round((a + b) - float(a*b)/T)), round being half away from zero
RoundUnion(a, b, T) == (2 * ((a + b) * T - a * b) + T) \div (2 * T)

\* the key taken as the reverse complement when only the given strand is searched
IndexOf_GivenStrandRc(new_re, given_only) ==
    IF given_only THEN get_rc(new_re) ELSE StrMin(new_re, get_rc(new_re))

\* the key under which a pattern is stored
IndexOf(new_re, given_only) ==
    IF given_only THEN new_re ELSE StrMin(new_re, get_rc(new_re))

\* c_counts after the loop over alph: the significant REs of column i
BaseCounts(re, i, re_pv, log_add_pthresh, given_only) ==
    LET idx(k) == IndexOf(Subst(re, i, k), given_only)
        sig == {k \in _alph : /\ idx(k) \in DOMAIN re_pv
                               /\ LogLess(re_pv[idx(k)][5], log_add_pthresh)}
    IN [k \in sig |-> <<re_pv[idx(k)][1], re_pv[idx(k)][3]>>]

RECURSIVE AmbigCounts(_, _, _, _)
\* for ambig in ambigs, from the j-th one on
AmbigCounts(c_counts, j, P, N) ==
    IF j > Len(_dna_ambigs) THEN c_counts
    ELSE LET ambig == _dna_ambigs[j]
             pair == _dna_ambig_mappings[ambig]
         IN IF pair[1] \in DOMAIN c_counts /\ pair[2] \in DOMAIN c_counts
            THEN LET c1 == c_counts[pair[1]]
                     c2 == c_counts[pair[2]]
                 IN AmbigCounts(DictPut(c_counts, ambig,
                                        <<RoundUnion(c1[1], c2[1], P),
                                          RoundUnion(c1[2], c2[2], N)>>),
                                j + 1, P, N)
            ELSE AmbigCounts(c_counts, j + 1, P, N)

RECURSIVE ColumnStores_KeepsBoundaryN(_, _, _, _, _, _, _)
\* the stores of column i without the test for N in the first or last position
ColumnStores_KeepsBoundaryN(re, i, c_counts, j, P, N, given_only) ==
    IF j > Len(_dna_ambigs) THEN <<>>
    ELSE LET k == _dna_ambigs[j]
             new_re == Subst(re, i, k)
             rest == ColumnStores_KeepsBoundaryN(re, i, c_counts, j + 1, P, N, given_only)
         IN IF k \in DOMAIN c_counts /\ k \notin _alph
            THEN <<[col |-> i, ambig |-> k, new_re |-> new_re,
                    index |-> IndexOf(new_re, given_only),
                    rec |-> <<c_counts[k][1], P, c_counts[k][2], N,
                              getLogPvalue(c_counts[k][1], P, c_counts[k][2], N)>>]>>
                 \o rest
            ELSE rest

RECURSIVE ColumnStores(_, _, _, _, _, _, _)
\* for k in c_counts (taken in the order of _dna_ambigs): the stores of column i
ColumnStores(re, i, c_counts, j, P, N, given_only) ==
    IF j > Len(_dna_ambigs) THEN <<>>
    ELSE LET k == _dna_ambigs[j]
             new_re == Subst(re, i, k)
             rest == ColumnStores(re, i, c_counts, j + 1, P, N, given_only)
         IN IF k \in DOMAIN c_counts /\ k \notin _alph
               /\ ~(new_re[1] = "N" \/ new_re[Len(new_re)] = "N")
            THEN <<[col |-> i, ambig |-> k, new_re |-> new_re,
                    index |-> IndexOf(new_re, given_only),
                    rec |-> <<c_counts[k][1], P, c_counts[k][2], N,
                              getLogPvalue(c_counts[k][1], P, c_counts[k][2], N)>>]>>
                 \o rest
            ELSE rest

RECURSIVE GeneralizeStores(_, _, _, _, _)
\* for i in range(i, len(re)): the assignments new_re_pvalues[index] = [...]
\* that re_generalize makes, in order
GeneralizeStores(re, i, re_pv, log_add_pthresh, given_only) ==
    IF i >= Len(re) THEN <<>>
    ELSE IF re[i + 1] \notin _alph
         THEN GeneralizeStores(re, i + 1, re_pv, log_add_pthresh, given_only)
         ELSE LET P == re_pv[re][2]
                  N == re_pv[re][4]
                  c_counts == AmbigCounts(
                      BaseCounts(re, i, re_pv, log_add_pthresh, given_only), 1, P, N)
              IN ColumnStores(re, i, c_counts, 1, P, N, given_only)
                 \o GeneralizeStores(re, i + 1, re_pv, log_add_pthresh, given_only)

RECURSIVE ApplyStores(_, _, _)
ApplyStores(d, stores, j) ==
    IF j > Len(stores) THEN d
    ELSE ApplyStores(DictPut(d, stores[j].index, stores[j].rec), stores, j + 1)

\* new_re_pvalues after re_generalize(re, re_pvalues, ..., new_re_pvalues, ...)
re_generalize(re, re_pv, new_re_pvalues, log_add_pthresh, given_only) ==
    ApplyStores(new_re_pvalues,
                GeneralizeStores(re, 0, re_pv, log_add_pthresh, given_only), 1)

RECURSIVE GeneralizeKeys(_, _, _, _, _, _, _)
\* for re in sorted_keys[:ngen], from the j-th key on
GeneralizeKeys(new_re_pvalues, keys, j, old, n_ambigs, log_add_pthresh, given_only) ==
    IF j > Len(keys) THEN new_re_pvalues
    ELSE GeneralizeKeys(
            IF n_ambigs > Len(keys[j]) THEN new_re_pvalues
            ELSE re_generalize(keys[j], old, new_re_pvalues, log_add_pthresh, given_only),
            keys, j + 1, old, n_ambigs, log_add_pthresh, given_only)

\* final_re_pvalues[key] = new_re_pvalues[key] for every key
DictUpdate(final, new) ==
    [x \in (DOMAIN final) \cup (DOMAIN new) |-> IF x \in DOMAIN new THEN new[x] ELSE final[x]]

RECURSIVE GeneralizeRounds(_, _, _, _, _, _, _)
\* for n_ambigs in range(n_ambigs, maxw+1): final_re_pvalues after the rounds
GeneralizeRounds(old, final, n_ambigs, maxw, ngen, log_add_pthresh, given_only) ==
    IF n_ambigs > maxw \/ DOMAIN old = {} THEN final
    ELSE LET new == GeneralizeKeys(<<>>, Take(sorted_re_pvalue_keys(old), ngen), 1,
                                   old, n_ambigs, log_add_pthresh, given_only)
         IN GeneralizeRounds(new, DictUpdate(final, new), n_ambigs + 1, maxw, ngen,
                             log_add_pthresh, given_only)

compute_top_res(re_pv, ncomp, pos, neg, given_only) ==
    LET keys == Take(sorted_re_pvalue_keys(re_pv), ncomp)
        top == {keys[j] : j \in 1..Len(keys)}
    IN [re \in DOMAIN re_pv |->
            IF re \in top THEN compute_exact_re_enrichment(re, pos, neg, given_only)
            ELSE re_pv[re]]

re_generalize_all(re_pv, ngen, log_add_pthresh, maxw, pos, neg, given_only) ==
    DictUpdate(
        compute_top_res(
            GeneralizeRounds(re_pv, <<>>, 1, maxw, ngen, log_add_pthresh, given_only),
            ngen, pos, neg, given_only),
        re_pv)

re_find_cores(pos, neg, ngen, minw, maxw, log_add_pthresh, given_only) ==
    re_generalize_all(
        apply_fisher_test(count_seqs_with_words(pos, minw, maxw, given_only),
                          count_seqs_with_words(neg, minw, maxw, given_only),
                          Len(pos), Len(neg)),
        ngen, log_add_pthresh, maxw, pos, neg, given_only)

-----------------------------------------------------------------------------
(* output_best_re and erase_re.                                            *)

\* output_best_re correcting by the number of candidates of the width range
\* instead of the size of the whole table
output_best_re_CandidateCount(re_pv, minw, maxw, ethresh, upos, uneg, given_only) ==
    LET candidates == {re \in DOMAIN re_pv : Len(re) >= minw /\ Len(re) <= maxw}
    IN IF candidates = {}
       THEN [found |-> FALSE, best_re |-> <<>>, rc |-> <<>>, pos |-> 0, neg |-> 0,
             log_pvalue |-> Sentinel, log_Evalue |-> Sentinel,
             unerased_log_Evalue |-> Sentinel, significant |-> FALSE]
       ELSE LET best_re == CHOOSE x \in candidates :
                               \A y \in candidates : KeyLeq(re_pv, x, y)
                r == re_pv[best_re]
                best_log_Evalue == LogPlusLogOf(r[5], Cardinality(candidates))
                unerased == compute_exact_re_enrichment(best_re, upos, uneg, given_only)
            IN [found |-> TRUE, best_re |-> best_re, rc |-> get_rc(best_re),
                pos |-> r[1], neg |-> r[3],
                log_pvalue |-> r[5], log_Evalue |-> best_log_Evalue,
                unerased_log_Evalue |->
                    LogPlusLogOf(unerased[5], Cardinality(candidates)),
                significant |-> LogLeq(best_log_Evalue, ethresh)]

\* what output_best_re computes before it writes anything: the best RE, its
\* counts, p-value, E-value, unerased E-value, and whether it is significant
output_best_re(re_pv, minw, maxw, ethresh, upos, uneg, given_only) ==
    LET candidates == {re \in DOMAIN re_pv : Len(re) >= minw /\ Len(re) <= maxw}
    IN IF candidates = {}
       THEN [found |-> FALSE, best_re |-> <<>>, rc |-> <<>>, pos |-> 0, neg |-> 0,
             log_pvalue |-> Sentinel, log_Evalue |-> Sentinel,
             unerased_log_Evalue |-> Sentinel, significant |-> FALSE]
       ELSE LET best_re == CHOOSE x \in candidates :
                               \A y \in candidates : KeyLeq(re_pv, x, y)
                r == re_pv[best_re]
                best_log_Evalue == LogPlusLogOf(r[5], Cardinality(DOMAIN re_pv))
                unerased == compute_exact_re_enrichment(best_re, upos, uneg, given_only)
            IN [found |-> TRUE, best_re |-> best_re, rc |-> get_rc(best_re),
                pos |-> r[1], neg |-> r[3],
                log_pvalue |-> r[5], log_Evalue |-> best_log_Evalue,
                unerased_log_Evalue |->
                    LogPlusLogOf(unerased[5], Cardinality(DOMAIN re_pv)),
                significant |-> LogLeq(best_log_Evalue, ethresh)]

\* erase_re matching the given strand only
erase_re_in_GivenStrand(re, seqs) ==
    LET ms == make_dna_re(re, TRUE, FALSE)
    IN [i \in 1..Len(seqs) |-> re_sub(ms, Ns(Len(re)), seqs[i])]

\* erase_re dropping the result of ms.sub
erase_re_in_ResultDropped(re, seqs) == seqs

\* one of the two loops of erase_re over a sequence list
erase_re_in(re, seqs) ==
    LET ms == make_dna_re(re, FALSE, FALSE)
    IN [i \in 1..Len(seqs) |-> re_sub(ms, Ns(Len(re)), seqs[i])]

-----------------------------------------------------------------------------
(* The timeout.                                                            *)

\* the value None of max_motifs and max_time: no limit
None == -1

\* enable_timeout that raises only when more than a second over the limit
enable_timeout_LateRaise(max_time, elapsed) ==
    IF max_time = None THEN [raise |-> FALSE, arm |-> FALSE, alarm |-> 0]
    ELSE LET remaining == max_time * TicksPerSecond - elapsed
         IN IF remaining + TicksPerSecond < 0
            THEN [raise |-> TRUE, arm |-> FALSE, alarm |-> 0]
            ELSE [raise |-> FALSE, arm |-> TRUE, alarm |-> 0]

\* enable_timeout(max_time, start_time) when elapsed ticks have passed:
\* whether it raises TimeoutError, whether it calls signal.alarm, and the
\* tick at which the alarm is then due (0: signal.alarm(0), no alarm)
enable_timeout(max_time, elapsed) ==
    IF max_time = None THEN [raise |-> FALSE, arm |-> FALSE, alarm |-> 0]
    ELSE LET remaining == max_time * TicksPerSecond - elapsed
         IN IF remaining < 0
            THEN [raise |-> TRUE, arm |-> FALSE, alarm |-> 0]
            ELSE LET secs == remaining \div TicksPerSecond
                 IN [raise |-> FALSE, arm |-> TRUE,
                     alarm |-> IF secs = 0 THEN 0 ELSE elapsed + secs * TicksPerSecond]

-----------------------------------------------------------------------------
(* The state of main() while a single function is exercised.               *)

NoCall == [op |-> "none"]

LoopIdle ==
    /\ cfg = [idle |-> TRUE]
    /\ pos_seqs = <<>> /\ neg_seqs = <<>>
    /\ unerased_pos_seqs = <<>> /\ unerased_neg_seqs = <<>>
    /\ nmotifs = 0 /\ stop_cause = "" /\ pc = "idle"
    /\ re_pvalues = <<>> /\ best = <<>>
    /\ now = 0 /\ alarm = 0 /\ xml_out = <<>> /\ hist = <<>>

-----------------------------------------------------------------------------
(* getLogPvalue on all counts up to MaxCount.                              *)

InitPvalue ==
    /\ LoopIdle
    /\ \E P \in 0..MaxCount, N \in 0..MaxCount :
         \E p \in 0..P, n \in 0..N :
            call = [op |-> "getLogPvalue", p |-> p, P |-> P, n |-> n, N |-> N,
                    done |-> FALSE, value |-> Log1, fet |-> 0]

CallGetLogPvalue ==
    /\ call.op = "getLogPvalue" /\ ~call.done
    /\ LET r == getLogPvalueTraced(call.p, call.P, call.n, call.N)
       IN call' = [call EXCEPT !.done = TRUE, !.value = r.value, !.fet = r.fet]
    /\ UNCHANGED loopVars

NextPvalue == CallGetLogPvalue

SpecPvalue == InitPvalue /\ [][NextPvalue]_vars

\* C7: getLogPvalue returns exactly 0 without calling log_getFETprob whenever
\* p*N <= n*P, and calls log_getFETprob (once) exactly when p*N > n*P.
C7_ShortCircuit ==
    (call.op = "getLogPvalue" /\ call.done) =>
        /\ (call.p * call.N <= call.n * call.P) => (call.value = Log1 /\ call.fet = 0)
        /\ (call.p * call.N > call.n * call.P) => call.fet = 1

\* a call on unenriched counts with p > 0 has returned
C7_Witness ==
    /\ call.op = "getLogPvalue" /\ call.done
    /\ call.p > 0 /\ call.p * call.N <= call.n * call.P
    /\ call.value = Log1 /\ call.fet = 0

-----------------------------------------------------------------------------
(* count_seqs_with_words on all short sequence lists.                      *)

\* all strings over the letters of at most n characters
StringsUpTo(letters, n) == UNION {[1..k -> letters] : k \in 0..n}

CensusLetters == {"A", "C", "T", "N"}

InitCensus ==
    /\ LoopIdle
    /\ \E seqs \in [1..CensusNumSeqs -> StringsUpTo(CensusLetters, CensusMaxLen)] :
       \E minw \in 1..CensusMaxLen, given_only \in BOOLEAN :
       \E maxw \in minw..CensusMaxLen :
            call = [op |-> "census", seqs |-> seqs, minw |-> minw, maxw |-> maxw,
                    given_only |-> given_only, done |-> FALSE, counts |-> <<>>]

CallCountSeqsWithWords ==
    /\ call.op = "census" /\ ~call.done
    /\ call' = [call EXCEPT !.done = TRUE,
                 !.counts = count_seqs_with_words(call.seqs, call.minw, call.maxw,
                                                  call.given_only)]
    /\ UNCHANGED loopVars

NextCensus == CallCountSeqsWithWords

SpecCensus == InitCensus /\ [][NextCensus]_vars

\* word occurs in s as a substring
Occurs(word, s) ==
    \E i \in 0..(Len(s) - Len(word)) : Slice(s, i, i + Len(word)) = word

\* the number of places of s where word (or, on both strands, its reverse
\* complement) occurs
Occurrences(word, s, given_only) ==
    Cardinality({i \in 0..(Len(s) - Len(word)) :
        \/ Slice(s, i, i + Len(word)) = word
        \/ ~given_only /\ Slice(s, i, i + Len(word)) = get_rc(word)})

\* the sequences of seqs that contain word on an accepted strand
SeqsWith(word, seqs, given_only) ==
    {k \in 1..Len(seqs) :
        Occurs(word, seqs[k]) \/ (~given_only /\ Occurs(get_rc(word), seqs[k]))}

\* C8: the census count of a canonical word is the number of sequences that
\* contain it (or its reverse complement on both strands) at least once; it
\* never exceeds the number of sequences and is the same when the census is
\* run over the single width of the word.
C8_CensusCountsSequences ==
    (call.op = "census" /\ call.done) =>
        \A word \in DOMAIN call.counts :
            /\ call.counts[word][1] =
                    Cardinality(SeqsWith(word, call.seqs, call.given_only))
            /\ call.counts[word][1] <= Len(call.seqs)
            /\ LET single == count_seqs_with_words(call.seqs, Len(word), Len(word),
                                                   call.given_only)
               IN word \in DOMAIN single /\ single[word][1] = call.counts[word][1]

\* a word of width 2 that recurs inside one sequence and is also in the other
\* one has been counted twice over a width range of several widths
C8_Witness ==
    /\ call.op = "census" /\ call.done /\ call.minw < call.maxw
    /\ \E word \in DOMAIN call.counts :
         /\ Len(word) = 2
         /\ call.counts[word][1] = 2
         /\ Occurrences(word, call.seqs[1], call.given_only) >= 2
         /\ Occurrences(word, call.seqs[2], call.given_only) >= 1

-----------------------------------------------------------------------------
(* Strand symmetry of the canonical form and of the exact record.          *)

StrandSeqLetters == {"A", "C", "G", "T"}

InitStrand ==
    /\ LoopIdle
    /\ \E w \in StringsUpTo(Iupac, StrandMaxLen) \ {<<>>} :
       \E s1 \in [1..2 -> StrandSeqLetters], s2 \in [1..1 -> StrandSeqLetters] :
            call = [op |-> "strand", w |-> w, pos |-> <<s1>>, neg |-> <<s2>>,
                    done |-> FALSE, canon_w |-> <<>>, canon_rc |-> <<>>,
                    rec_w |-> <<>>, rec_rc |-> <<>>]

CallBothStrands ==
    /\ call.op = "strand" /\ ~call.done
    /\ LET w == call.w
           rc == get_rc(w)
       IN call' = [call EXCEPT !.done = TRUE,
                    !.canon_w = StrMin(w, rc),
                    !.canon_rc = StrMin(rc, get_rc(rc)),
                    !.rec_w = compute_exact_re_enrichment(w, call.pos, call.neg, FALSE),
                    !.rec_rc = compute_exact_re_enrichment(rc, call.pos, call.neg, FALSE)]
    /\ UNCHANGED loopVars

NextStrand == CallBothStrands

SpecStrand == InitStrand /\ [][NextStrand]_vars

\* C9: on both strands, min(w, rc(w)) = min(rc(w), rc(rc(w))) and the exact
\* record (p, P, n, N, log_pvalue) of w equals that of rc(w).
C9_StrandSymmetry ==
    (call.op = "strand" /\ call.done) =>
        /\ call.canon_w = call.canon_rc
        /\ call.rec_w = call.rec_rc

\* a pattern that differs from its reverse complement and matches the
\* positive sequence on the reverse strand only
C9_Witness ==
    /\ call.op = "strand" /\ call.done
    /\ call.w # get_rc(call.w)
    /\ call.rec_w[1] = 1 /\ call.rec_rc[1] = 1
    /\ ~re_search(make_dna_re(call.w, TRUE, FALSE), call.pos[1])

-----------------------------------------------------------------------------
(* re_generalize_all, one call of re_generalize at a time.                 *)

Dna == {"A", "C", "G", "T"}

\* the values of add_pthresh that are tried
AddThresholds == {<<1, 2>>, <<1, 1>>}

\* the positive sets that are tried: all short sequences over the four bases,
\* and longer sequences over two bases, which hold enough words of one width
\* for a second round of generalization to store patterns
GenPositives ==
    [1..GenNumPos -> StringsUpTo(Dna, GenMaxLen)]
        \cup [1..GenNumPos -> [1..GenDeepLen -> {"A", "C"}]]

InitGeneralize ==
    /\ LoopIdle
    /\ \E pos \in GenPositives :
       \E neg \in [1..1 -> StringsUpTo(Dna, GenNegLen)] :
       \E given_only \in BOOLEAN, thr \in AddThresholds, ngen \in {1, GenBeam} :
            call = [op |-> "generalize", pos |-> pos, neg |-> neg,
                    given_only |-> given_only, log_add_pthresh |-> thr, ngen |-> ngen,
                    minw |-> 1, maxw |-> GenMaxLen,
                    phase |-> "start", initial |-> <<>>, old |-> <<>>, new |-> <<>>,
                    final |-> <<>>, keys |-> <<>>, idx |-> 1, n_ambigs |-> 1,
                    last_re |-> <<>>, last_stores |-> <<>>, result |-> <<>>]

\* re_find_cores up to the call of re_generalize_all, and the first
\* sorted_keys of re_generalize_all
GenStart ==
    /\ call.op = "generalize" /\ call.phase = "start"
    /\ LET words == apply_fisher_test(
                        count_seqs_with_words(call.pos, call.minw, call.maxw, call.given_only),
                        count_seqs_with_words(call.neg, call.minw, call.maxw, call.given_only),
                        Len(call.pos), Len(call.neg))
       IN call' = [call EXCEPT
                    !.initial = words, !.old = words,
                    !.keys = Take(sorted_re_pvalue_keys(words), call.ngen),
                    !.phase = IF 1 > call.maxw \/ DOMAIN words = {} THEN "top" ELSE "round"]
    /\ UNCHANGED loopVars

\* one pass of "for re in sorted_keys[:ngen]"
GenOne ==
    /\ call.op = "generalize" /\ call.phase = "round" /\ call.idx <= Len(call.keys)
    /\ LET re == call.keys[call.idx]
           stores == IF call.n_ambigs > Len(re) THEN <<>>
                     ELSE GeneralizeStores(re, 0, call.old, call.log_add_pthresh,
                                           call.given_only)
       IN call' = [call EXCEPT
                    !.new = IF call.n_ambigs > Len(re) THEN @
                            ELSE re_generalize(re, call.old, @, call.log_add_pthresh,
                                               call.given_only),
                    !.idx = @ + 1, !.last_re = re, !.last_stores = stores]
    /\ UNCHANGED loopVars

\* the end of one pass of "for n_ambigs in range(1, maxw+1)"
GenEndRound ==
    /\ call.op = "generalize" /\ call.phase = "round" /\ call.idx > Len(call.keys)
    /\ call' = [call EXCEPT
                 !.final = DictUpdate(@, call.new),
                 !.old = call.new, !.new = <<>>, !.idx = 1,
                 !.n_ambigs = @ + 1,
                 !.keys = Take(sorted_re_pvalue_keys(call.new), call.ngen),
                 !.last_re = <<>>, !.last_stores = <<>>,
                 !.phase = IF call.n_ambigs + 1 > call.maxw \/ DOMAIN call.new = {}
                           THEN "top" ELSE "round"]
    /\ UNCHANGED loopVars

\* compute_top_res and the copy of the initial records
GenFinish ==
    /\ call.op = "generalize" /\ call.phase = "top"
    /\ call' = [call EXCEPT
                 !.result = DictUpdate(
                     compute_top_res(call.final, call.ngen, call.pos, call.neg,
                                     call.given_only),
                     call.initial),
                 !.phase = "done"]
    /\ UNCHANGED loopVars

NextGeneralize == GenStart \/ GenOne \/ GenEndRound \/ GenFinish

SpecGeneralize == InitGeneralize /\ [][NextGeneralize]_vars

\* the table built step by step is the table of re_find_cores
GenStepsAgree ==
    (call.op = "generalize" /\ call.phase = "done") =>
        call.result = re_find_cores(call.pos, call.neg, call.ngen, call.minw, call.maxw,
                                    call.log_add_pthresh, call.given_only)

\* re is an exact word
IsExact(re) == \A k \in 1..Len(re) : re[k] \in _alph

\* C10 as claimed: every pattern that re_generalize stores while generalizing
\* a word w matches w: its compiled matcher (same strand mode) accepts w.
C10_StoredMatchesWord ==
    (call.op = "generalize" /\ call.phase = "round") =>
        \A j \in 1..Len(call.last_stores) :
            re_search(make_dna_re(call.last_stores[j].index, call.given_only, FALSE),
                      call.last_re)

\* C10 as amended: a pattern that re_generalize stores for column i of the
\* exact word w, with the ambiguity code k, is w with column i replaced by k
\* (or the reverse complement of that on both strands), and its compiled
\* matcher accepts w whenever the bases of k include the letter w[i].
C10_StoredMatchesWordIfCodeCovers ==
    (call.op = "generalize" /\ call.phase = "round" /\ IsExact(call.last_re)) =>
        \A j \in 1..Len(call.last_stores) :
            LET e == call.last_stores[j]
                w == call.last_re
            IN /\ e.ambig \notin _alph
               /\ e.new_re = Subst(w, e.col, e.ambig)
               /\ e.index \in {e.new_re, get_rc(e.new_re)}
               /\ (call.given_only => e.index = e.new_re)
               /\ (w[e.col + 1] \in _ambig_to_dna[e.ambig]) =>
                      re_search(make_dna_re(e.index, call.given_only, FALSE), w)

\* re_generalize has stored, for a word of width 2, a pattern under the key of
\* its reverse complement whose code covers the letter of the word
C10_Witness ==
    /\ call.op = "generalize" /\ call.phase = "round" /\ IsExact(call.last_re)
    /\ Len(call.last_re) = 2
    /\ \E j \in 1..Len(call.last_stores) :
         LET e == call.last_stores[j]
         IN /\ call.last_re[e.col + 1] \in _ambig_to_dna[e.ambig]
            /\ e.index # e.new_re

-----------------------------------------------------------------------------
(* The find-erase loop of main().                                          *)

\* the letters of the sequences of runs without and with a time limit
LoopLetters == {"A", "C", "G"}
TimedLetters == {"C", "G"}

\* the tuple (word, rc_word, pvalue, Evalue) of main before find_print returns
NoBest ==
    [found |-> FALSE, best_re |-> <<>>, rc |-> <<>>, pos |-> 0, neg |-> 0,
     log_pvalue |-> Log1, log_Evalue |-> Log1, unerased_log_Evalue |-> Log1,
     significant |-> FALSE]

NoHist ==
    [searches |-> 0,            \* searches started so far
     search_start |-> 0,        \* the tick at which the last one was started
     returned |-> FALSE,        \* find_print has returned in this iteration
     emitted |-> FALSE,         \* a motif was written in this iteration
     raised_at |-> "",          \* the checkpoint at which enable_timeout raised
     pos_at_search |-> <<>>,    \* the sequence sets when the last search started
     neg_at_search |-> <<>>]

Configs ==
    [given_only : BOOLEAN,
     minw : 1..LoopMaxW, maxw : {LoopMaxW}, mink : {1}, maxk : {LoopMaxW},
     ngen : {GenBeam},
     ethresh : {<<2, 1>>},
     log_add_pthresh : {<<1, 1>>},
     max_motifs : {None, 1, 2},
     max_time : {None, 1}]

InitLoop ==
    /\ call = NoCall
    /\ cfg \in Configs
    /\ \/ /\ cfg.max_time = None
          /\ pos_seqs \in [1..2 -> StringsUpTo(LoopLetters, LoopSeqLen) \ {<<>>}]
          /\ neg_seqs \in [1..1 -> [1..1 -> LoopLetters]]
       \/ /\ cfg.max_time # None
          /\ pos_seqs \in [1..2 -> [1..LoopSeqLen -> TimedLetters]]
          /\ neg_seqs \in [1..1 -> [1..1 -> TimedLetters]]
    /\ unerased_pos_seqs = pos_seqs
    /\ unerased_neg_seqs = neg_seqs
    /\ nmotifs = 0
    /\ stop_cause = ""
    /\ pc = "loop_top"
    /\ re_pvalues = <<>>
    /\ best = NoBest
    /\ now = 0
    /\ alarm = 0
    /\ xml_out = <<>>
    /\ hist = NoHist

\* SIGALRM is due: the handler runs before the main thread goes on
AlarmDue == alarm # 0 /\ now >= alarm

\* the positions of the main thread inside the two try blocks
InSearchTry == {"find_cores", "output_best", "make_pwm", "disable_timeout",
                "write_motif", "write_logos", "find_return"}
InEraseTry == {"erase_pos", "erase_neg", "erase_disable"}
LoopLeft == {"after_loop", "done", "crashed"}

\* top of the loop body and enable_timeout of the search phase
EnableTimeoutSearch ==
    /\ pc = "loop_top" /\ ~AlarmDue
    /\ LET t == enable_timeout(cfg.max_time, now)
       IN /\ IF t.raise
             THEN /\ stop_cause' = "time" /\ pc' = "after_loop"
                  /\ hist' = [hist EXCEPT !.raised_at = "search"]
                  /\ UNCHANGED alarm
             ELSE /\ pc' = "find_cores"
                  /\ alarm' = IF t.arm THEN t.alarm ELSE alarm
                  /\ hist' = [hist EXCEPT !.searches = @ + 1, !.search_start = now,
                                           !.returned = FALSE, !.emitted = FALSE,
                                           !.pos_at_search = pos_seqs,
                                           !.neg_at_search = neg_seqs]
                  /\ UNCHANGED stop_cause
    /\ best' = NoBest
    /\ re_pvalues' = <<>>
    /\ UNCHANGED <<cfg, pos_seqs, neg_seqs, unerased_pos_seqs, unerased_neg_seqs,
                   nmotifs, now, xml_out, call>>

\* find_print: re_find_cores (maxw = maxk, re_extend_cores is not entered)
FindCores ==
    /\ pc = "find_cores" /\ ~AlarmDue
    /\ re_pvalues' = re_find_cores(pos_seqs, neg_seqs, cfg.ngen, cfg.mink, cfg.maxk,
                                   cfg.log_add_pthresh, cfg.given_only)
    /\ pc' = "output_best"
    /\ UNCHANGED <<cfg, pos_seqs, neg_seqs, unerased_pos_seqs, unerased_neg_seqs,
                   nmotifs, stop_cause, best, now, alarm, xml_out, hist, call>>

\* output_best_re up to the test "if best_log_Evalue <= log(ethresh)"
OutputBestRe ==
    /\ pc = "output_best" /\ ~AlarmDue
    /\ best' = output_best_re(re_pvalues, cfg.minw, cfg.maxw, cfg.ethresh,
                              unerased_pos_seqs, unerased_neg_seqs, cfg.given_only)
    /\ pc' = IF best'.significant THEN "make_pwm" ELSE "find_return"
    /\ UNCHANGED <<cfg, pos_seqs, neg_seqs, unerased_pos_seqs, unerased_neg_seqs,
                   nmotifs, stop_cause, re_pvalues, now, alarm, xml_out, hist, call>>

\* make_pwm_from_re, with the alarm still armed
MakePwm ==
    /\ pc = "make_pwm" /\ ~AlarmDue
    /\ pc' = "disable_timeout"
    /\ UNCHANGED <<cfg, pos_seqs, neg_seqs, unerased_pos_seqs, unerased_neg_seqs,
                   nmotifs, stop_cause, re_pvalues, best, now, alarm, xml_out, hist, call>>

\* output_best_re going on to print without disable_timeout()
DisableTimeoutBeforePrint_Skipped ==
    /\ pc = "disable_timeout" /\ ~AlarmDue
    /\ pc' = "write_motif"
    /\ UNCHANGED <<cfg, pos_seqs, neg_seqs, unerased_pos_seqs, unerased_neg_seqs,
                   nmotifs, stop_cause, re_pvalues, best, now, alarm, xml_out, hist, call>>

\* disable_timeout() of output_best_re
DisableTimeoutBeforePrint ==
    /\ pc = "disable_timeout" /\ ~AlarmDue
    /\ alarm' = 0
    /\ pc' = "write_motif"
    /\ UNCHANGED <<cfg, pos_seqs, neg_seqs, unerased_pos_seqs, unerased_neg_seqs,
                   nmotifs, stop_cause, re_pvalues, best, now, xml_out, hist, call>>

\* write_xml_motif: the motif starts to appear in the output
WriteXmlMotif ==
    /\ pc = "write_motif" /\ ~AlarmDue
    /\ xml_out' = Append(xml_out,
                    [motif_num |-> nmotifs + 1, re |-> best.best_re,
                     pos |-> best.pos, neg |-> best.neg,
                     log_pvalue |-> best.log_pvalue, log_Evalue |-> best.log_Evalue,
                     unerased_log_Evalue |-> best.unerased_log_Evalue,
                     complete |-> FALSE])
    /\ hist' = [hist EXCEPT !.emitted = TRUE]
    /\ pc' = "write_logos"
    /\ UNCHANGED <<cfg, pos_seqs, neg_seqs, unerased_pos_seqs, unerased_neg_seqs,
                   nmotifs, stop_cause, re_pvalues, best, now, alarm, call>>

\* the rest of write_xml_motif and the two output_logo calls
WriteLogos ==
    /\ pc = "write_logos" /\ ~AlarmDue
    /\ xml_out' = [xml_out EXCEPT ![Len(xml_out)].complete = TRUE]
    /\ pc' = "find_return"
    /\ UNCHANGED <<cfg, pos_seqs, neg_seqs, unerased_pos_seqs, unerased_neg_seqs,
                   nmotifs, stop_cause, re_pvalues, best, now, alarm, hist, call>>

\* output_best_re and find_print return; main leaves the try block
FindPrintReturn ==
    /\ pc = "find_return" /\ ~AlarmDue
    /\ hist' = [hist EXCEPT !.returned = TRUE]
    /\ pc' = "check_evalue"
    /\ UNCHANGED <<cfg, pos_seqs, neg_seqs, unerased_pos_seqs, unerased_neg_seqs,
                   nmotifs, stop_cause, re_pvalues, best, now, alarm, xml_out, call>>

\* the test "nmotifs == max_motifs" taken as nmotifs > max_motifs
ReachedMaxMotifs_Greater(n, max_motifs) == max_motifs # None /\ n > max_motifs

\* nmotifs == max_motifs
ReachedMaxMotifs(n, max_motifs) == max_motifs # None /\ n = max_motifs

\* the two stopping tests after find_print
CheckStop ==
    /\ pc = "check_evalue" /\ ~AlarmDue
    /\ IF ~LogLeq(best.log_Evalue, cfg.ethresh)
       THEN /\ stop_cause' = "evalue" /\ pc' = "after_loop"
            /\ UNCHANGED nmotifs
       ELSE /\ nmotifs' = nmotifs + 1
            /\ IF ReachedMaxMotifs(nmotifs + 1, cfg.max_motifs)
               THEN stop_cause' = "count" /\ pc' = "after_loop"
               ELSE pc' = "erase_enable" /\ UNCHANGED stop_cause
    /\ UNCHANGED <<cfg, pos_seqs, neg_seqs, unerased_pos_seqs, unerased_neg_seqs,
                   re_pvalues, best, now, alarm, xml_out, hist, call>>

\* enable_timeout of the erasure phase
EnableTimeoutErase ==
    /\ pc = "erase_enable" /\ ~AlarmDue
    /\ LET t == enable_timeout(cfg.max_time, now)
       IN IF t.raise
          THEN /\ stop_cause' = "time" /\ pc' = "after_loop"
               /\ hist' = [hist EXCEPT !.raised_at = "erase"]
               /\ UNCHANGED alarm
          ELSE /\ pc' = IF LogLeq(best.log_Evalue, cfg.ethresh)
                        THEN "erase_pos" ELSE "erase_disable"
               /\ alarm' = IF t.arm THEN t.alarm ELSE alarm
               /\ UNCHANGED <<stop_cause, hist>>
    /\ UNCHANGED <<cfg, pos_seqs, neg_seqs, unerased_pos_seqs, unerased_neg_seqs,
                   nmotifs, re_pvalues, best, now, xml_out, call>>

\* erase_re on positive sequences that the pristine list shares (no deep copy)
ErasePos_SharedList ==
    /\ pc = "erase_pos" /\ ~AlarmDue
    /\ pos_seqs' = erase_re_in(best.best_re, pos_seqs)
    /\ unerased_pos_seqs' = pos_seqs'
    /\ pc' = "erase_neg"
    /\ UNCHANGED <<cfg, neg_seqs, unerased_neg_seqs, nmotifs,
                   stop_cause, re_pvalues, best, now, alarm, xml_out, hist, call>>

\* erase_re: the loop over pos_seqs
ErasePos ==
    /\ pc = "erase_pos" /\ ~AlarmDue
    /\ pos_seqs' = erase_re_in(best.best_re, pos_seqs)
    /\ pc' = "erase_neg"
    /\ UNCHANGED <<cfg, neg_seqs, unerased_pos_seqs, unerased_neg_seqs, nmotifs,
                   stop_cause, re_pvalues, best, now, alarm, xml_out, hist, call>>

\* erase_re: the loop over neg_seqs
EraseNeg ==
    /\ pc = "erase_neg" /\ ~AlarmDue
    /\ neg_seqs' = erase_re_in(best.best_re, neg_seqs)
    /\ pc' = "erase_disable"
    /\ UNCHANGED <<cfg, pos_seqs, unerased_pos_seqs, unerased_neg_seqs, nmotifs,
                   stop_cause, re_pvalues, best, now, alarm, xml_out, hist, call>>

\* disable_timeout() after the erasure; back to the top of the loop
DisableTimeoutAfterErase ==
    /\ pc = "erase_disable" /\ ~AlarmDue
    /\ alarm' = 0
    /\ pc' = "loop_top"
    /\ UNCHANGED <<cfg, pos_seqs, neg_seqs, unerased_pos_seqs, unerased_neg_seqs,
                   nmotifs, stop_cause, re_pvalues, best, now, xml_out, hist, call>>

\* after the loop: the summary and write_xml_bottom
WriteXmlBottom ==
    /\ pc = "after_loop" /\ ~AlarmDue
    /\ pc' = "done"
    /\ UNCHANGED <<cfg, pos_seqs, neg_seqs, unerased_pos_seqs, unerased_neg_seqs,
                   nmotifs, stop_cause, re_pvalues, best, now, alarm, xml_out, hist, call>>

\* timeout_handler: TimeoutError is raised where the main thread is; it is
\* caught inside the two try blocks only
TimeoutHandler ==
    /\ AlarmDue /\ pc \notin {"done", "crashed"}
    /\ alarm' = 0
    /\ IF pc \in InSearchTry \cup InEraseTry
       THEN stop_cause' = "time" /\ pc' = "after_loop"
       ELSE pc' = "crashed" /\ UNCHANGED stop_cause
    /\ UNCHANGED <<cfg, pos_seqs, neg_seqs, unerased_pos_seqs, unerased_neg_seqs,
                   nmotifs, re_pvalues, best, now, xml_out, hist, call>>

\* the wall clock advances (it is read only when a time limit is set)
Tick ==
    /\ pc \notin {"idle", "done", "crashed"} /\ ~AlarmDue
    /\ cfg.max_time # None
    /\ now < MaxNow
    /\ now' = now + 1
    /\ UNCHANGED <<cfg, pos_seqs, neg_seqs, unerased_pos_seqs, unerased_neg_seqs,
                   nmotifs, stop_cause, pc, re_pvalues, best, alarm, xml_out, hist, call>>

NextLoop ==
    \/ EnableTimeoutSearch
    \/ FindCores
    \/ OutputBestRe
    \/ MakePwm
    \/ DisableTimeoutBeforePrint
    \/ WriteXmlMotif
    \/ WriteLogos
    \/ FindPrintReturn
    \/ CheckStop
    \/ EnableTimeoutErase
    \/ ErasePos
    \/ EraseNeg
    \/ DisableTimeoutAfterErase
    \/ WriteXmlBottom
    \/ TimeoutHandler
    \/ Tick

Spec == InitLoop /\ [][NextLoop]_vars

-----------------------------------------------------------------------------
(* Properties of the find-erase loop.                                      *)

TableSize == Cardinality(DOMAIN re_pvalues)

\* the patterns of the table with a width in [minw, maxw]
Candidates == {re \in DOMAIN re_pvalues : Len(re) >= cfg.minw /\ Len(re) <= cfg.maxw}

\* the candidates of lowest log_pvalue
BestCandidates ==
    {b \in Candidates :
        \A y \in Candidates : LogLeq(re_pvalues[b][5], re_pvalues[y][5])}

\* no sequence of either set still matches re (on either strand)
NoMatchLeft(re) ==
    LET ms == make_dna_re(re, FALSE, FALSE)
    IN /\ \A i \in 1..Len(pos_seqs) : ~re_search(ms, pos_seqs[i])
       /\ \A i \in 1..Len(neg_seqs) : ~re_search(ms, neg_seqs[i])

\* C1: in every iteration (whose find_print returns) a motif is emitted if and
\* only if log_pvalue(best pattern) + log(size of the whole table) <=
\* log(ethresh), and the E-value reported for the motif is exactly that sum.
C1_EmittedIffEvalueWithinThreshold ==
    (pc = "check_evalue") =>
        /\ hist.emitted <=>
              \E b \in BestCandidates :
                  LogLeq(LogPlusLogOf(re_pvalues[b][5], TableSize), cfg.ethresh)
        /\ hist.emitted =>
              LET m == xml_out[Len(xml_out)]
              IN /\ m.complete
                 /\ m.re \in BestCandidates
                 /\ m.log_Evalue = LogPlusLogOf(re_pvalues[m.re][5], TableSize)

\* a motif was emitted from a table that also holds patterns narrower than minw
C1_Witness ==
    /\ pc = "check_evalue" /\ hist.emitted
    /\ \E re \in DOMAIN re_pvalues : Len(re) < cfg.minw

MthEmitted ==
    /\ cfg.max_motifs # None /\ cfg.max_motifs >= 1
    /\ Len(xml_out) >= cfg.max_motifs
    /\ xml_out[cfg.max_motifs].complete

\* C3: with max_motifs = m >= 1, once the m-th motif has been emitted the
\* loop runs no other search (and no erasure) and terminates with stop cause
\* count.
C3_StopsAtCount ==
    MthEmitted =>
        /\ pc \in {"find_return", "check_evalue", "after_loop", "done"}
        /\ Len(xml_out) = cfg.max_motifs
        /\ hist.searches = cfg.max_motifs
        /\ pos_seqs = hist.pos_at_search /\ neg_seqs = hist.neg_at_search
        /\ (pc \in {"after_loop", "done"}) => stop_cause = "count"

\* the loop stopped with count after the second motif although a positive
\* sequence still holds letters
C3_Witness ==
    /\ MthEmitted /\ cfg.max_motifs = 2 /\ stop_cause = "count"
    /\ \E i \in 1..Len(pos_seqs) : \E k \in 1..Len(pos_seqs[i]) : pos_seqs[i][k] # "N"

\* C4: if find_print returns an E-value above ethresh (also when no pattern
\* has a width in [minw, maxw]) no motif is emitted and nothing is erased in
\* that iteration and the loop terminates with stop cause evalue; in the
\* first iteration the run then emits no motif at all.
C4_InsignificantStopsWithEvalue ==
    (hist.returned /\ ~LogLeq(best.log_Evalue, cfg.ethresh)) =>
        /\ ~hist.emitted
        /\ pos_seqs = hist.pos_at_search /\ neg_seqs = hist.neg_at_search
        /\ pc \in {"check_evalue", "after_loop", "done"}
        /\ (pc \in {"after_loop", "done"}) => stop_cause = "evalue"
        /\ (hist.searches = 1) => xml_out = <<>>

Deadline == cfg.max_time * TicksPerSecond

\* C5: when a time limit is set and the elapsed time exceeds it at one of the
\* two checkpoints, the loop terminates there with stop cause time without
\* running the phase (no search, no erasure); no search is started after the
\* deadline has passed.
C5_DeadlineStopsAtCheckpoint ==
    [][ /\ (/\ cfg.max_time # None /\ now > Deadline
            /\ pc \in {"loop_top", "erase_enable"} /\ pc' # pc)
           => /\ stop_cause' = "time" /\ pc' = "after_loop"
              /\ pos_seqs' = pos_seqs /\ neg_seqs' = neg_seqs
              /\ hist'.searches = hist.searches
        /\ (hist'.searches # hist.searches)
           => (cfg.max_time = None \/ now <= Deadline) ]_vars

\* the deadline passed between the emission of a motif and the checkpoint of
\* the erasure phase: the loop stopped there without erasing
C5_Witness ==
    /\ hist.raised_at = "erase" /\ stop_cause = "time"
    /\ hist.emitted /\ pos_seqs = hist.pos_at_search

\* C6: the alarm is off while a motif is written, and when the loop has
\* stopped every motif of the output is complete and the output holds
\* exactly nmotifs motifs.
C6_NoPartialMotif ==
    /\ (pc \in {"write_motif", "write_logos"}) => alarm = 0
    /\ (pc \in LoopLeft) =>
            /\ \A j \in 1..Len(xml_out) : xml_out[j].complete
            /\ Len(xml_out) = nmotifs

\* the alarm went off in output_best_re after the best RE was found
\* significant and before it was written
C6_Witness ==
    /\ pc = "after_loop" /\ stop_cause = "time" /\ hist.raised_at = ""
    /\ best.significant /\ ~hist.emitted /\ ~hist.returned

-----------------------------------------------------------------------------
(* erase_re applied repeatedly to short sequence lists.                    *)

MaxErasures == 2
EraseMaxW == 2
EraseSeqLen == 3

\* the letters of the erased patterns and of the sequences
ErasePatternLetters == {"A", "T", "S", "N"}
EraseSeqLetters == {"A", "C", "T", "N"}

ErasePatterns == StringsUpTo(ErasePatternLetters, EraseMaxW) \ {<<>>}

InitErase ==
    /\ LoopIdle
    /\ \E pos \in [1..1 -> StringsUpTo(EraseSeqLetters, EraseSeqLen)] :
       \E neg \in [1..1 -> StringsUpTo(EraseSeqLetters, 1)] :
            call = [op |-> "erase", pos0 |-> pos, neg0 |-> neg,
                    pos |-> pos, neg |-> neg, prev_pos |-> pos, prev_neg |-> neg,
                    re |-> <<>>, n |-> 0, repeated |-> FALSE]

\* erase_re(re, pos_seqs, neg_seqs) with a pattern not erased just before
EraseNew ==
    /\ call.op = "erase" /\ call.n < MaxErasures
    /\ \E re \in ErasePatterns :
         /\ re # call.re
         /\ call' = [call EXCEPT
                      !.prev_pos = call.pos, !.prev_neg = call.neg,
                      !.pos = erase_re_in(re, call.pos),
                      !.neg = erase_re_in(re, call.neg),
                      !.re = re, !.n = @ + 1, !.repeated = FALSE]
    /\ UNCHANGED loopVars

\* erase_re with the pattern of the last erasure, on the sets it left
EraseSame ==
    /\ call.op = "erase" /\ call.n >= 1 /\ ~call.repeated
    /\ call' = [call EXCEPT
                 !.prev_pos = call.pos, !.prev_neg = call.neg,
                 !.pos = erase_re_in(call.re, call.pos),
                 !.neg = erase_re_in(call.re, call.neg),
                 !.repeated = TRUE]
    /\ UNCHANGED loopVars

NextErase == EraseNew \/ EraseSame

SpecErase == InitErase /\ [][NextErase]_vars

\* C11: erasure is idempotent: erase_re(R) applied to sets already erased
\* with R leaves every sequence unchanged, and after an erasure with R no
\* sequence contains a match of R or of its reverse complement.
C11_ErasureIdempotent ==
    (call.op = "erase" /\ call.n >= 1) =>
        /\ \A k \in 1..Len(call.pos) :
             /\ ~re_search(make_dna_re(call.re, TRUE, FALSE), call.pos[k])
             /\ ~re_search(make_dna_re(get_rc(call.re), TRUE, FALSE), call.pos[k])
        /\ \A k \in 1..Len(call.neg) :
             /\ ~re_search(make_dna_re(call.re, TRUE, FALSE), call.neg[k])
             /\ ~re_search(make_dna_re(get_rc(call.re), TRUE, FALSE), call.neg[k])
        /\ call.repeated => (call.pos = call.prev_pos /\ call.neg = call.prev_neg)

\* a pattern was erased a second time from a sequence in which two of its
\* occurrences overlapped, only one of which was replaced as a whole
C11_Witness ==
    /\ call.op = "erase" /\ call.n = 1 /\ call.repeated
    /\ Len(call.re) = 2
    /\ \E i \in 0..Len(call.pos0[1]) :
         /\ AltMatchAt(make_dna_re(call.re, FALSE, FALSE), call.pos0[1], i)
         /\ call.pos[1][i + 1] = "N" /\ call.pos[1][i + 2] # "N"


\* C15: after any sequence of erasures the number of sequences of the positive
\* and of the negative set is unchanged and every sequence keeps its length:
\* a character is either left as it was or replaced by N.
C15_ErasureKeepsLengths ==
    (call.op = "erase") =>
        /\ Len(call.pos) = Len(call.pos0) /\ Len(call.neg) = Len(call.neg0)
        /\ \A k \in 1..Len(call.pos) :
             /\ Len(call.pos[k]) = Len(call.pos0[k])
             /\ \A x \in 1..Len(call.pos[k]) : call.pos[k][x] \in {call.pos0[k][x], "N"}
        /\ \A k \in 1..Len(call.neg) :
             /\ Len(call.neg[k]) = Len(call.neg0[k])
             /\ \A x \in 1..Len(call.neg[k]) : call.neg[k][x] \in {call.neg0[k][x], "N"}

\* two patterns of width 2 were erased one after the other, each of them
\* replacing characters of the positive sequence
C15_Witness ==
    /\ call.op = "erase" /\ call.n = 2 /\ Len(call.re) = 2
    /\ call.pos # call.prev_pos
    /\ call.prev_pos # call.pos0
    /\ call.neg # call.neg0

-----------------------------------------------------------------------------
(* The record, the choice and the pristine copies of output_best_re.       *)

\* runs with a beam of one pattern and a lax E-value threshold, on sequences
\* that hold the letter N
BeamLetters == {"A", "C", "N"}

BeamConfigs ==
    [given_only : BOOLEAN,
     minw : 1..LoopMaxW, maxw : {LoopMaxW}, mink : {1}, maxk : {LoopMaxW},
     ngen : {1},
     ethresh : {<<16, 1>>},
     log_add_pthresh : {<<1, 1>>},
     max_motifs : {None, 1},
     max_time : {None, 1}]

InitBeam ==
    /\ call = NoCall
    /\ cfg \in BeamConfigs
    /\ \/ /\ cfg.max_time = None
          /\ pos_seqs \in [1..2 -> [1..LoopSeqLen -> BeamLetters]]
          /\ neg_seqs \in [1..1 -> [1..1 -> {"A", "N"}]]
       \/ /\ cfg.max_time # None
          /\ pos_seqs \in [1..2 -> [1..LoopSeqLen -> TimedLetters]]
          /\ neg_seqs \in [1..1 -> [1..1 -> TimedLetters]]
    /\ unerased_pos_seqs = pos_seqs
    /\ unerased_neg_seqs = neg_seqs
    /\ nmotifs = 0
    /\ stop_cause = ""
    /\ pc = "loop_top"
    /\ re_pvalues = <<>>
    /\ best = NoBest
    /\ now = 0
    /\ alarm = 0
    /\ xml_out = <<>>
    /\ hist = NoHist

SpecBeam == InitBeam /\ [][NextLoop]_vars

\* C13: the counts p, n and the p-value written for an emitted motif are the
\* exact match counts of its pattern against the current sequence sets, never
\* an inclusion-exclusion estimate.
C13_ReportedCountsExact ==
    (pc = "write_logos") =>
        LET m == xml_out[Len(xml_out)]
            exact == compute_exact_re_enrichment(m.re, pos_seqs, neg_seqs, cfg.given_only)
        IN /\ m.pos = exact[1] /\ m.neg = exact[3]
           /\ LogEq(m.log_pvalue, exact[5])
           /\ re_pvalues[m.re] = exact

\* the positions of the main thread at which the tuple of output_best_re is
\* that of the table of the current iteration
BestIsCurrent == {"make_pwm", "disable_timeout", "write_motif", "write_logos",
                  "find_return", "check_evalue"}

\* C14: the pattern reported by an iteration has a width in [minw, maxw], no
\* pattern of the table with a width in that range has a strictly smaller
\* log_pvalue, and among patterns of equal log_pvalue it is the
\* lexicographically smallest.
C14_BestIsMinimalInRange ==
    (pc \in BestIsCurrent /\ best.found) =>
        /\ best.best_re \in DOMAIN re_pvalues
        /\ Len(best.best_re) >= cfg.minw /\ Len(best.best_re) <= cfg.maxw
        /\ LogEq(best.log_pvalue, re_pvalues[best.best_re][5])
        /\ \A re \in DOMAIN re_pvalues :
             (Len(re) >= cfg.minw /\ Len(re) <= cfg.maxw) =>
                /\ ~LogLess(re_pvalues[re][5], best.log_pvalue)
                /\ LogEq(re_pvalues[re][5], best.log_pvalue) =>
                       ~StrLess(re, best.best_re)

\* the reported pattern ties with another pattern of the range, and a
\* narrower pattern outside the range has a strictly smaller p-value
C14_Witness ==
    /\ pc \in BestIsCurrent /\ best.found
    /\ \E re \in DOMAIN re_pvalues :
         /\ re # best.best_re /\ Len(re) >= cfg.minw /\ Len(re) <= cfg.maxw
         /\ LogEq(re_pvalues[re][5], best.log_pvalue)
    /\ \E re \in DOMAIN re_pvalues :
         /\ Len(re) < cfg.minw
         /\ LogLess(re_pvalues[re][5], best.log_pvalue)

\* C16: the pristine copies taken before the first iteration are never
\* modified: they equal the input sequence sets whatever is erased, and the
\* unerased E-value of every motif is computed against them.
C16_PristineCopiesUntouched ==
    /\ (unerased_pos_seqs = pos_seqs /\ unerased_neg_seqs = neg_seqs)
    /\ [][/\ unerased_pos_seqs' = unerased_pos_seqs
          /\ unerased_neg_seqs' = unerased_neg_seqs
          /\ (pc = "output_best" /\ pc' # "output_best" /\ best'.found) =>
                LogEq(best'.unerased_log_Evalue,
                      LogPlusLogOf(
                          compute_exact_re_enrichment(best'.best_re, unerased_pos_seqs,
                                                      unerased_neg_seqs, cfg.given_only)[5],
                          Cardinality(DOMAIN re_pvalues)))]_vars

\* a second motif is written after the erasure of the first has changed both
\* sequence sets, the pristine copies still holding the erased pattern
C16_Witness ==
    /\ pc = "write_logos" /\ hist.searches >= 2 /\ Len(xml_out) = 2
    /\ pos_seqs # unerased_pos_seqs /\ neg_seqs # unerased_neg_seqs
    /\ \E k \in 1..Len(unerased_pos_seqs) :
         re_search(make_dna_re(xml_out[1].re, FALSE, FALSE), unerased_pos_seqs[k])

-----------------------------------------------------------------------------
(* main() on input that may be degenerate: empty sets, empty sequences.    *)

DegMaxSeqs == 2
DegSeqLen == 2

DegLetters == {"A", "C"}

\* the lists of at most n sequences taken from S
ListsUpTo(S, n) == UNION {[1..k -> S] : k \in 0..n}

DegConfigs ==
    [given_only : BOOLEAN,
     minw : 1..LoopMaxW, maxw : {LoopMaxW}, mink : {1}, maxk : {LoopMaxW},
     ngen : {GenBeam},
     ethresh : {<<2, 1>>},
     log_add_pthresh : {<<1, 1>>},
     max_motifs : {None, 1},
     max_time : {None, 1}]

\* the state after readFASTA of both files, whatever they hold, and the
\* deep copies
InitDegenerate ==
    /\ call = NoCall
    /\ cfg \in DegConfigs
    /\ pos_seqs \in ListsUpTo(StringsUpTo(DegLetters, DegSeqLen), DegMaxSeqs)
    /\ neg_seqs \in ListsUpTo(StringsUpTo(DegLetters, 1), 1)
    /\ unerased_pos_seqs = pos_seqs
    /\ unerased_neg_seqs = neg_seqs
    /\ nmotifs = 0
    /\ stop_cause = ""
    /\ pc = "loop_top"
    /\ re_pvalues = <<>>
    /\ best = NoBest
    /\ now = 0
    /\ alarm = 0
    /\ xml_out = <<>>
    /\ hist = NoHist

SpecDegenerate == InitDegenerate /\ [][NextLoop]_vars

\* the input is degenerate: an empty set or a sequence of length zero
Degenerate(pos, neg) ==
    \/ Len(pos) = 0 \/ Len(neg) = 0
    \/ \E k \in 1..Len(pos) : Len(pos[k]) = 0
    \/ \E k \in 1..Len(neg) : Len(neg[k]) = 0

\* C17: degenerate input is rejected before the discovery loop is entered:
\* with an empty positive set, an empty negative set, or zero-length
\* sequences, no search iteration is ever started.
C17_DegenerateInputRejected ==
    Degenerate(unerased_pos_seqs, unerased_neg_seqs) => hist.searches = 0

-----------------------------------------------------------------------------
(* The width options of main().                                            *)

MaxWidthOpt == 3

\* the value of minw and maxw when the option is not given
NotGiven == -1

\* the values of -minw and -maxw, and of -mink and -maxk
FinalWidthOpts == {NotGiven} \cup 1..MaxWidthOpt
CoreWidthOpts == 1..MaxWidthOpt

InitWidths ==
    /\ LoopIdle
    /\ \E minw \in FinalWidthOpts, maxw \in FinalWidthOpts :
       \E mink \in CoreWidthOpts, maxk \in CoreWidthOpts :
            call = [op |-> "widths", phase |-> "check_minw",
                    given |-> [minw |-> minw, maxw |-> maxw, mink |-> mink, maxk |-> maxk],
                    minw |-> minw, maxw |-> maxw, mink |-> mink, maxk |-> maxk]

\* "if minw > maxw": maxw reset to minw when it was not given, an error otherwise
CheckMinwMaxw ==
    /\ call.op = "widths" /\ call.phase = "check_minw"
    /\ call' = IF call.minw > call.maxw
               THEN IF call.maxw = NotGiven
                    THEN [call EXCEPT !.maxw = call.minw, !.phase = "init_range"]
                    ELSE [call EXCEPT !.phase = "error"]
               ELSE [call EXCEPT !.phase = "init_range"]
    /\ UNCHANGED loopVars

\* "initialze width range"
InitWidthRange ==
    /\ call.op = "widths" /\ call.phase = "init_range"
    /\ call' = [call EXCEPT
                 !.minw = IF @ = NotGiven THEN call.mink ELSE @,
                 !.maxw = IF @ = NotGiven THEN call.maxk ELSE @,
                 !.phase = "check_mink"]
    /\ UNCHANGED loopVars

\* "if mink > maxk"
CheckMinkMaxk ==
    /\ call.op = "widths" /\ call.phase = "check_mink"
    /\ call' = [call EXCEPT !.phase = IF call.mink > call.maxk THEN "error" ELSE "clamp"]
    /\ UNCHANGED loopVars

\* "check that core size not larger than maxw"; main goes on to read the
\* sequences and to search
ClampCore ==
    /\ call.op = "widths" /\ call.phase = "clamp"
    /\ call' = [call EXCEPT
                 !.maxk = IF call.maxw < @ THEN call.maxw ELSE @,
                 !.mink = IF call.maxw < @ THEN call.maxw ELSE @,
                 !.phase = "accepted"]
    /\ UNCHANGED loopVars

NextWidths == CheckMinwMaxw \/ InitWidthRange \/ CheckMinkMaxk \/ ClampCore

SpecWidths == InitWidths /\ [][NextWidths]_vars

\* the width options are invalid: minimum final width greater than maximum
\* final width, minimum core width greater than maximum core width, or a core
\* width exceeding the final width
InvalidWidths(o) ==
    \/ o.minw # NotGiven /\ o.maxw # NotGiven /\ o.minw > o.maxw
    \/ o.mink > o.maxk
    \/ o.maxw # NotGiven /\ (o.mink > o.maxw \/ o.maxk > o.maxw)

\* C18: every invalid width configuration is rejected with an error before any
\* search; the widths with which a search starts are consistent.
C18_InvalidWidthsRejected ==
    (call.op = "widths" /\ call.phase = "accepted") =>
        /\ ~InvalidWidths(call.given)
        /\ call.minw <= call.maxw /\ call.mink <= call.maxk /\ call.maxk <= call.maxw

-----------------------------------------------------------------------------
(* re_refine_all: the greedy refiner, exact and consensus/Hamming.         *)

RefineMaxW == 2
RefineNumPos == 2
RefineSeqLen == 2
RefineNegLen == 1
RefineMaxNref == 2
WordMaxW == 1
MaxEstimated == 2

\* the letters of the sequences and of the pattern the refinement starts from
RefineSeqLetters == {"A", "C"}
RefineStartLetters == {"A", "N"}

\* all_letters = _dna_alphabet + _dna_ambigs
all_letters == _dna_alphabet \o _dna_ambigs

\* the alphabet word_refine hands to the Hamming estimator
HammingLetters == <<"A", "C", "G", "T", "N">>

\* the p-value an estimated record carries
EstPvalues == {<<1, 2>>}

\* new_pvalue[4] < re_pvalues[re][4]
Improves(new_p, parent_p) == LogLess(new_p, parent_p)

\* done_re_list.has_key(re)
AlreadyRefined_Never(done, re) == FALSE

AlreadyRefined(done, re) == re \in done

\* done_re_list[re] = 1
MarkDone_Forgets(done, re) == done

MarkDone(done, re) == done \cup {re}

\* min(new_re, get_rc(new_re))
Canonical(new_re) == StrMin(new_re, get_rc(new_re))

\* the patterns one letter of `letters` away from re
Neighbours(re, letters) ==
    {Subst(re, i, letters[j]) : i \in 0..(Len(re) - 1), j \in 1..Len(letters)} \ {re}

\* the place of the substitution new_re of re in the two loops of re_refine:
\* the columns in order and, within a column, the allowed letters in order
LoopPlace(re, new_re, allowed_letters) ==
    LET i == CHOOSE x \in 1..Len(re) : re[x] # new_re[x]
        j == CHOOSE y \in 1..Len(allowed_letters) : allowed_letters[y] = new_re[i]
    IN (i - 1) * Len(allowed_letters) + j

\* the two loops of re_refine over the columns and the allowed letters of one
\* candidate, subs being its substitutions and exact[new_re] being
\* compute_exact_re_enrichment of new_re. A key is scored once, when the loops
\* first reach a substitution that has it: of a pattern and its reverse
\* complement, both substitutions of re, the one that comes first in the loops.
\* The keys scored are new to the table, hence not yet among the improved.
ReRefineSubs(st, re, allowed_letters, subs, exact) ==
    LET FirstOf(index) ==
            IF get_rc(index) \in subs /\ (index \notin subs \/
                   LoopPlace(re, get_rc(index), allowed_letters) <
                       LoopPlace(re, index, allowed_letters))
            THEN get_rc(index) ELSE index
        new_pvalue(index) == exact[FirstOf(index)]
        keys == {Canonical(new_re) : new_re \in subs} \ DOMAIN st.re_pvalues
    IN [re_pvalues |->
            [index \in (DOMAIN st.re_pvalues) \cup keys |->
                IF index \in DOMAIN st.re_pvalues THEN st.re_pvalues[index]
                ELSE new_pvalue(index)],
        improved |->
            [index \in (DOMAIN st.improved) \cup
                       {x \in keys : Improves(new_pvalue(x)[5], st.re_pvalues[re][5])} |->
                IF index \in DOMAIN st.improved THEN st.improved[index]
                ELSE new_pvalue(index)]]

\* compute_exact_re_enrichment of every pattern of width w over the allowed
\* letters: what the scans of the run return, the sequence sets being fixed
ExactRecords(w, allowed_letters, pos, neg, given_only) ==
    [new_re \in [1..w -> {allowed_letters[j] : j \in 1..Len(allowed_letters)}] |->
        compute_exact_re_enrichment(new_re, pos, neg, given_only)]

\* the record the Hamming estimator returns for a neighbour of a word
EstimatedRecord(actual_record, q) ==
    <<actual_record[1], actual_record[2], actual_record[3], actual_record[4], q, 1>>

\* the record the Hamming alignment returns for a word at distance 0
HammingRecord(word, pos, neg, given_only) ==
    compute_exact_re_enrichment(word, pos, neg, given_only) \o <<0>>

\* scored[key] + 1, counted up to 2
CountScoring(scored, key) ==
    DictPut(scored, key, IF key \in DOMAIN scored THEN 2 ELSE 1)

\* the patterns refine_from_re starts from, the words refine_from_consensus does
RefineStarts(hamming_dist) ==
    StringsUpTo(RefineStartLetters, IF hamming_dist = -1 THEN RefineMaxW ELSE WordMaxW)
        \ {<<>>}

RefineSeqs == [1..RefineSeqLen -> RefineSeqLetters]

\* refine_from_re / refine_from_consensus up to their call of re_refine_all
InitRefine ==
    /\ LoopIdle
    /\ \E hamming_dist \in {-1, 0} :
       \E re \in RefineStarts(hamming_dist) :
       \E pos \in [1..RefineNumPos -> RefineSeqs] :
       \E neg \in [1..1 -> [1..RefineNegLen -> RefineSeqLetters]] :
       \E nref \in 1..RefineMaxNref :
       \E given_only \in BOOLEAN :
         LET index == Canonical(re)
             rec == IF hamming_dist = -1
                    THEN compute_exact_re_enrichment(re, pos, neg, given_only)
                    ELSE HammingRecord(re, pos, neg, given_only)
         IN call = [op |-> "refine", phase |-> "sort",
                    hamming_dist |-> hamming_dist, given_only |-> given_only,
                    nref |-> nref, pos |-> pos, neg |-> neg,
                    exact |-> IF hamming_dist = -1
                              THEN ExactRecords(Len(re), all_letters, pos, neg,
                                                given_only)
                              ELSE <<>>,
                    re_pvalues |-> IF hamming_dist = -1 THEN (index :> rec) ELSE <<>>,
                    improved |-> (index :> rec),
                    candidates |-> <<>>, todo |-> {},
                    done |-> {}, new_re_pvalues |-> <<>>,
                    round_done |-> {}, round_refined |-> {},
                    skipped |-> {}, scored |-> <<>>]

\* the records of sorted_re_pvalue_keys(re_pv)[:nref]: a key is among the
\* first nref of the sorted keys iff fewer than nref keys come before it
TopRecords(re_pv, nref) ==
    [re \in {x \in DOMAIN re_pv :
                Cardinality({y \in DOMAIN re_pv : y # x /\ KeyLeq(re_pv, y, x)}) < nref}
        |-> re_pv[re]]

\* re_refine_all: sort the improved patterns and take the top nref as the
\* candidates of the round
ReRefineAllSort ==
    /\ call.op = "refine" /\ call.phase = "sort"
    /\ \E cands \in {TopRecords(call.improved, call.nref)} :
         call' = [call EXCEPT
                    !.phase = "refine",
                    !.candidates = cands,
                    !.todo = DOMAIN cands,
                    !.new_re_pvalues = DictUpdate(@, cands),
                    !.improved = <<>>,
                    !.round_done = call.done,
                    !.round_refined = {}]
    /\ UNCHANGED loopVars

\* re_refine / word_refine: a candidate refined before is skipped
RefineSkip ==
    /\ call.op = "refine" /\ call.phase = "refine"
    /\ \E re \in call.todo :
         /\ AlreadyRefined(call.done, re)
         /\ call' = [call EXCEPT !.todo = @ \ {re}, !.skipped = @ \cup {re}]
    /\ UNCHANGED loopVars

\* re_refine: one candidate, all its single-letter substitutions
ReRefineOne ==
    /\ call.op = "refine" /\ call.phase = "refine" /\ call.hamming_dist = -1
    /\ \E re \in call.todo :
         /\ ~AlreadyRefined(call.done, re)
         /\ \E subs \in {Neighbours(re, all_letters)} :
            \E st \in {ReRefineSubs([re_pvalues |-> call.re_pvalues,
                                      improved |-> call.improved],
                                     re, all_letters, subs, call.exact)} :
              call' = [call EXCEPT
                         !.todo = @ \ {re},
                         !.done = MarkDone(@, re),
                         !.round_refined = @ \cup {re},
                         !.scored = CountScoring(@, re),
                         !.re_pvalues = st.re_pvalues,
                         !.improved = st.improved]
    /\ UNCHANGED loopVars

\* word_refine: one word, the estimated records of its neighbours
WordRefineOne ==
    /\ call.op = "refine" /\ call.phase = "refine" /\ call.hamming_dist # -1
    /\ \E word \in call.todo :
         /\ ~AlreadyRefined(call.done, word)
         /\ \E actual_record \in {HammingRecord(word, call.pos, call.neg,
                                                 call.given_only)} :
            \E K \in SUBSET Neighbours(word, HammingLetters) :
              /\ Cardinality(K) <= MaxEstimated
              /\ \E est \in [K -> EstPvalues] :
                 \E better \in {{nw \in K : Improves(est[nw], actual_record[5])}} :
                 \E idx \in {{Canonical(nw) : nw \in better}} :
                 \E last \in [idx -> better] :
                    /\ \A x \in idx : Canonical(last[x]) = x
                    /\ call' = [call EXCEPT
                          !.todo = @ \ {word},
                          !.done = MarkDone(@, word),
                          !.round_refined = @ \cup {word},
                          !.scored = CountScoring(@, word),
                          !.re_pvalues = DictPut(@, word, actual_record),
                          !.improved = DictUpdate(@,
                              [x \in idx |->
                                 EstimatedRecord(actual_record, est[last[x]])])]
    /\ UNCHANGED loopVars

\* re_refine_all: add the improved patterns to the result, stop if there are none
ReRefineAllEndRound ==
    /\ call.op = "refine" /\ call.phase = "refine" /\ call.todo = {}
    /\ call' = [call EXCEPT
                 !.new_re_pvalues = DictUpdate(@, call.improved),
                 !.phase = IF DOMAIN call.improved = {} THEN "returned" ELSE "sort"]
    /\ UNCHANGED loopVars

NextRefine ==
    \/ ReRefineAllSort
    \/ RefineSkip
    \/ ReRefineOne
    \/ WordRefineOne
    \/ ReRefineAllEndRound

SpecRefine == InitRefine /\ [][NextRefine]_vars

\* the loop of re_refine_all is never suspended
SpecRefineFair == SpecRefine /\ WF_vars(NextRefine)

\* C12: within one run of re_refine_all each pattern has its substitutions
\* scored at most once: a candidate that comes back into the frontier after
\* it was refined leaves the round without any scoring work, in the exact
\* and in the Hamming variant.
C12_RefinedAtMostOnce ==
    [][call.op = "refine" =>
          /\ \A re \in DOMAIN call'.scored : call'.scored[re] = 1
          /\ \A re \in (call.todo \ call'.todo) :
                re \in call.done =>
                    /\ call'.scored = call.scored
                    /\ call'.re_pvalues = call.re_pvalues
                    /\ call'.improved = call.improved]_vars

\* a word refined in an earlier round was a candidate again and was skipped
C12_Witness ==
    /\ call.op = "refine" /\ call.phase = "returned"
    /\ call.skipped # {}
    /\ call.skipped \subseteq DOMAIN call.scored
    /\ Cardinality(call.done) >= 2

\* the canonical single-letter substitutions of the candidates refined in the
\* round whose log_pvalue is strictly lower than their parent's
StrictlyImprovingSubstitutions ==
    {Canonical(new_re) :
        new_re \in UNION {{nr \in Neighbours(re, all_letters) :
                              LogLess(compute_exact_re_enrichment(
                                          nr, call.pos, call.neg, call.given_only)[5],
                                      call.re_pvalues[re][5])} :
                          re \in call.round_refined}}

\* C19: after a round of the exact refiner the next frontier is exactly the
\* set of the canonical single-letter substitutions of the candidates refined
\* in that round whose log_pvalue is strictly lower than their parent's.
C19_FrontierIsAllImprovements ==
    (call.op = "refine" /\ call.hamming_dist = -1
        /\ call.phase = "refine" /\ call.todo = {}) =>
        DOMAIN call.improved = StrictlyImprovingSubstitutions

\* the number of patterns of width w over an alphabet of n letters
RECURSIVE NumPatterns(_, _)
NumPatterns(n, w) == IF w = 0 THEN 1 ELSE n * NumPatterns(n, w - 1)

\* the round of re_refine_all ends: its last lines are run
RoundEnds == call.phase = "refine" /\ call'.phase # "refine"

-----------------------------------------------------------------------------
(* The dynamic programming of re_generalize over the ambiguity codes.      *)

\* c_counts of column i of re after the loop over ambigs
ColumnCounts(re, i, re_pv, log_add_pthresh, given_only) ==
    AmbigCounts(BaseCounts(re, i, re_pv, log_add_pthresh, given_only), 1,
                re_pv[re][2], re_pv[re][4])

\* the columns of the pattern last generalized that hold a letter of alph
LastColumns ==
    IF call.op = "generalize" /\ call.phase = "round" /\ call.last_re # <<>>
          /\ call.n_ambigs <= Len(call.last_re)
    THEN {i \in 0..(Len(call.last_re) - 1) : call.last_re[i + 1] \in _alph}
    ELSE {}

\* code precedes its use: the place of a code in the order of the loop
AmbigPlace(code) == CHOOSE j \in 1..Len(_dna_ambigs) : _dna_ambigs[j] = code

\* C21: in every column, an ambiguity code has counts exactly when its two
\* constituent codes have, the counts being p = round(p1 + p2 - p1*p2/P) and
\* n = round(n1 + n2 - n1*n2/N) of the constituents' final counts (rounding
\* half away from zero); the codes are taken in the order R,Y,K,M,S,W,B,D,H,V,N,
\* every doublet or triple before the code built from it, and these counts are
\* the ones stored.
C21_InclusionExclusionInOrder ==
    /\ _dna_ambigs = <<"R", "Y", "K", "M", "S", "W", "B", "D", "H", "V", "N">>
    /\ \A i \in LastColumns :
         LET P == call.old[call.last_re][2]
             N == call.old[call.last_re][4]
             cc == ColumnCounts(call.last_re, i, call.old, call.log_add_pthresh,
                                call.given_only)
         IN /\ \A code \in DOMAIN _dna_ambig_mappings :
                 LET pair == _dna_ambig_mappings[code]
                 IN /\ pair[2] \in _alph \/ AmbigPlace(pair[2]) < AmbigPlace(code)
                    /\ code \in DOMAIN cc <=>
                           (pair[1] \in DOMAIN cc /\ pair[2] \in DOMAIN cc)
                    /\ code \in DOMAIN cc =>
                           cc[code] = <<RoundUnion(cc[pair[1]][1], cc[pair[2]][1], P),
                                        RoundUnion(cc[pair[1]][2], cc[pair[2]][2], N)>>
            /\ \A j \in 1..Len(call.last_stores) :
                 LET e == call.last_stores[j]
                 IN e.col = i =>
                       /\ e.ambig \in DOMAIN cc
                       /\ e.rec[1] = cc[e.ambig][1] /\ e.rec[2] = P
                       /\ e.rec[3] = cc[e.ambig][2] /\ e.rec[4] = N

\* a column in which all four bases have counts, so that the triples and N are
\* combined from combined counts, a code of the column is rounded up from a
\* half, and a triple code has been stored
C21_Witness ==
    \E i \in LastColumns :
         LET P == call.old[call.last_re][2]
             cc == ColumnCounts(call.last_re, i, call.old, call.log_add_pthresh,
                                call.given_only)
         IN /\ "N" \in DOMAIN cc
            /\ \E code \in DOMAIN cc \ _alph :
                 LET pair == _dna_ambig_mappings[code]
                 IN (2 * cc[pair[1]][1] * cc[pair[2]][1]) % (2 * P) = P
            /\ \E j \in 1..Len(call.last_stores) :
                 call.last_stores[j].col = i
                    /\ call.last_stores[j].ambig \in {"B", "D", "H", "V"}

\* the number of ambiguous characters of a pattern
NumAmbigs(re) == Cardinality({k \in 1..Len(re) : re[k] \notin _alph})

\* C22: no pattern of the table that re_find_cores returns has N in its
\* first or in its last position, and every pattern that re_generalize stores
\* has exactly one ambiguous character more than the pattern it was
\* generalized from.
C22_NoBoundaryNOneMoreAmbig ==
    /\ (call.op = "generalize" /\ call.phase = "done") =>
          \A re \in DOMAIN call.result :
              Len(re) >= 1 /\ re[1] # "N" /\ re[Len(re)] # "N"
    /\ (call.op = "generalize" /\ call.phase = "round") =>
          \A j \in 1..Len(call.last_stores) :
              LET e == call.last_stores[j]
              IN /\ NumAmbigs(e.index) = NumAmbigs(call.last_re) + 1
                 /\ NumAmbigs(e.new_re) = NumAmbigs(call.last_re) + 1
                 /\ e.index[1] # "N" /\ e.index[Len(e.index)] # "N"

\* a pattern that already has one ambiguous character was generalized and a
\* pattern with two of them was stored, in a run whose first round had seen
\* all four bases in the column of a word of width 1 (whose code N, first and
\* last at once, was left out)
C22_Witness ==
    /\ call.op = "generalize" /\ call.phase = "round"
    /\ NumAmbigs(call.last_re) = 1
    /\ \E j \in 1..Len(call.last_stores) : NumAmbigs(call.last_stores[j].index) = 2
    /\ \E re \in DOMAIN call.initial :
          /\ Len(re) = 1
          /\ "N" \in DOMAIN ColumnCounts(re, 1, call.initial, call.log_add_pthresh,
                                         call.given_only)
          /\ <<"N">> \notin DOMAIN call.final


-----------------------------------------------------------------------------
(* The rounds of re_generalize_all.                                        *)

\* keys lists, without repetition and in ascending (log_pvalue, pattern)
\* order, the min(n, size) first patterns of the table d
IsFirstOf(keys, d, n) ==
    /\ \A j \in 1..Len(keys) : keys[j] \in DOMAIN d
    /\ Len(keys) = (IF n < Cardinality(DOMAIN d) THEN n ELSE Cardinality(DOMAIN d))
    /\ \A i, j \in 1..Len(keys) :
          i < j => (keys[i] # keys[j] /\ KeyLeq(d, keys[i], keys[j]))
    /\ \A x \in DOMAIN d :
          (\A j \in 1..Len(keys) : keys[j] # x) =>
              \A j \in 1..Len(keys) : KeyLeq(d, keys[j], x)

\* a round of generalization is running
InRound == call.op = "generalize" /\ call.phase = "round"

\* C23: in every round at most ngen patterns are expanded, all of them among
\* the ngen first of the table of the round in ascending (log_pvalue,
\* pattern) order; the table of round 1 is the table of significant words,
\* the table of every later round is the table the round before produced, and
\* no round is started on an empty table.
C23_BeamOfPreviousRound ==
    /\ [](InRound =>
            /\ IsFirstOf(call.keys, call.old, call.ngen)
            /\ call.idx - 1 <= call.ngen
            /\ call.last_re # <<>> =>
                  \E j \in 1..Len(call.keys) : call.keys[j] = call.last_re
            /\ DOMAIN call.old # {}
            /\ call.n_ambigs = 1 => call.old = call.initial
            /\ call.n_ambigs >= 2 =>
                  \A re \in DOMAIN call.old :
                      NumAmbigs(re) = call.n_ambigs - 1 /\ re \in DOMAIN call.final)
    /\ [][(InRound /\ call'.n_ambigs # call.n_ambigs) =>
            /\ call'.n_ambigs = call.n_ambigs + 1
            /\ call'.old = call.new
            /\ DOMAIN call.new = {} => call'.phase = "top"
            /\ call'.phase = "round" => DOMAIN call.new # {}]_vars

\* the second round has expanded all of its beam and stored a pattern, and
\* its table holds more patterns than the beam
C23_Witness ==
    /\ InRound /\ call.n_ambigs = 2
    /\ Cardinality(DOMAIN call.old) > call.ngen
    /\ call.idx = call.ngen + 1
    /\ Len(call.last_stores) > 0

\* a round has produced an empty table from a beam smaller than its table
C23_EmptyRound ==
    /\ InRound /\ call.idx > Len(call.keys) /\ DOMAIN call.new = {}
    /\ Cardinality(DOMAIN call.old) > call.ngen /\ call.n_ambigs < call.maxw


-----------------------------------------------------------------------------
(* re_extend_cores and find_best_secondary_re, up to the call of the       *)
(* refiner.                                                                *)

ExtSeqLen == 5      \* the extender is run on sequences of this length
ExtShortLen == 3    \* ... and on sequences too short for the padded core
ExtMaxW == 3        \* ... with maxw = 3, maxk = 2 and mink = 1 or 2

ExtLetters == {"A", "T"}

\* the sequences tried: one positive and one negative sequence
ExtSeqs == [1..ExtSeqLen -> ExtLetters] \cup [1..ExtShortLen -> ExtLetters]

RECURSIVE findall_from(_, _, _, _)
findall_from(ms, w, s, i) ==
    IF w = 0 \/ i + w > Len(s) THEN <<>>
    ELSE IF AltMatchAt(ms, s, i)
         THEN <<Slice(s, i, i + w)>> \o findall_from(ms, w, s, i + w)
         ELSE findall_from(ms, w, s, i + 1)

\* findall(ms, s): the leftmost non-overlapping matches
findall(ms, s) == findall_from(ms, Len(ms.alts[1]), s, 0)

RECURSIVE AlignSeqs(_, _, _, _)
AlignSeqs(re, seqs, given_only, k) ==
    IF k > Len(seqs) THEN <<>>
    ELSE LET m_both == make_dna_re(re, given_only, FALSE)
             m_given == make_dna_re(re, TRUE, FALSE)
             matches == findall(m_both, seqs[k])
         IN [j \in 1..Len(matches) |->
                IF re_search(m_given, matches[j]) THEN matches[j]
                ELSE get_rc(matches[j])]
            \o AlignSeqs(re, seqs, given_only, k + 1)

\* the matches of re in seqs, each on the strand that re matches
get_alignment_from_re(re, seqs, given_only) == AlignSeqs(re, seqs, given_only, 1)

RECURSIVE finditer_starts(_, _, _, _)
\* the starts m.start() of the leftmost non-overlapping matches of finditer
finditer_starts(ms, w, s, i) ==
    IF w = 0 \/ i + w > Len(s) THEN {}
    ELSE IF AltMatchAt(ms, s, i)
         THEN {i} \cup finditer_starts(ms, w, s, i + w)
         ELSE finditer_starts(ms, w, s, i + 1)

\* the start taken by the most matches of re on the given strand; the largest
\* such start on ties (max of the pairs (count, offset)), None when counts is
\* empty
get_best_offset(re, seqs) ==
    LET m_given == make_dna_re(re, TRUE, FALSE)
        lens == {Len(seqs[k]) : k \in 1..Len(seqs)} \cup {0}
        width == CHOOSE n \in lens : \A m \in lens : m <= n
        counts == [offset \in 0..(width - 1) |->
                      Cardinality({k \in 1..Len(seqs) :
                          offset \in finditer_starts(m_given, Len(re), seqs[k], 0)})]
    IN IF width = 0 THEN None
       ELSE CHOOSE o \in 0..(width - 1) :
               \A x \in 0..(width - 1) :
                   counts[x] < counts[o] \/ (counts[x] = counts[o] /\ x <= o)

\* min([(d[re][4], re) for re in d])[1], for a table d that is not empty
MinKey(d) == CHOOSE x \in DOMAIN d : \A y \in DOMAIN d : KeyLeq(d, x, y)

\* find_best_secondary_re: the combined pattern, or the exception raised
find_best_secondary_re(prim_re, pad, mink, maxk, ngen, log_add_pthresh, use_consensus, pos, neg, given_only) ==
    LET w == Len(prim_re)
        prim_re_padded == Ns(pad) \o prim_re \o Ns(pad)
        pos_aln == get_alignment_from_re(prim_re_padded, pos, given_only)
        neg_aln == get_alignment_from_re(prim_re_padded, neg, given_only)
        pos_left_flank == [k \in 1..Len(pos_aln) |-> Slice(pos_aln[k], 0, pad)]
        pos_right_flank == [k \in 1..Len(pos_aln) |->
                               Slice(pos_aln[k], w + pad, Len(pos_aln[k]))]
        neg_left_flank == [k \in 1..Len(neg_aln) |-> Slice(neg_aln[k], 0, pad)]
        neg_right_flank == [k \in 1..Len(neg_aln) |->
                               Slice(neg_aln[k], w + pad, Len(neg_aln[k]))]
        left_re_pvalues == re_find_cores(pos_left_flank, neg_left_flank, ngen, mink, maxk,
                                         log_add_pthresh, given_only)
        right_re_pvalues == re_find_cores(pos_right_flank, neg_right_flank, ngen, mink,
                                          maxk, log_add_pthresh, given_only)
    IN IF DOMAIN left_re_pvalues = {} \/ DOMAIN right_re_pvalues = {}
       THEN [raised |-> "ValueError", re |-> <<>>, side |-> "", offset |-> 0]
       ELSE LET left_re == MinKey(left_re_pvalues)
                left_offset == get_best_offset(left_re, pos_left_flank)
                left_pad == pad - Len(left_re) - left_offset
                right_re == MinKey(right_re_pvalues)
                right_offset == get_best_offset(right_re, pos_right_flank)
                right_pad == right_offset
                right == LogLess(right_re_pvalues[right_re][5],
                                 left_re_pvalues[left_re][5])
            IN IF use_consensus
               THEN [raised |-> "TypeError", re |-> <<>>, side |-> "", offset |-> 0]
               ELSE IF right
                    THEN [raised |-> "", side |-> "right", offset |-> right_offset,
                          re |-> prim_re \o Ns(right_pad) \o right_re]
                    ELSE [raised |-> "", side |-> "left", offset |-> left_offset,
                          re |-> left_re \o Ns(left_pad) \o prim_re]

InitExtend ==
    /\ LoopIdle
    /\ \E p \in ExtSeqs, n \in ExtSeqs, mink \in 1..2 :
       \E given_only \in BOOLEAN, use_consensus \in BOOLEAN :
            call = [op |-> "extend", pos |-> <<p>>, neg |-> <<n>>,
                    given_only |-> given_only, use_consensus |-> use_consensus,
                    ngen |-> GenBeam, nref |-> 1, log_add_pthresh |-> Log1,
                    mink |-> mink, maxk |-> ExtMaxW - 1, maxw |-> ExtMaxW,
                    phase |-> "cores", re_pvalues |-> <<>>, prim_re |-> <<>>,
                    pad |-> 0, scnd |-> <<>>, re |-> <<>>, refiner |-> "",
                    raised |-> ""]

\* find_print: re_find_cores and the test maxw > maxk
ExtFindCores ==
    /\ call.op = "extend" /\ call.phase = "cores"
    /\ call' = [call EXCEPT
                 !.re_pvalues = re_find_cores(call.pos, call.neg, call.ngen, call.mink,
                                              call.maxk, call.log_add_pthresh,
                                              call.given_only),
                 !.phase = IF call.maxw > call.maxk THEN "primary" ELSE "output"]
    /\ UNCHANGED loopVars

\* re_extend_cores: the best core and its pad
ExtPrimary ==
    /\ call.op = "extend" /\ call.phase = "primary"
    /\ IF DOMAIN call.re_pvalues = {}
       THEN call' = [call EXCEPT !.phase = "raised", !.raised = "ValueError"]
       ELSE \E prim_re \in {MinKey(call.re_pvalues)} :
                call' = [call EXCEPT !.prim_re = prim_re,
                                     !.pad = call.maxw - Len(prim_re),
                                     !.phase = "secondary"]
    /\ UNCHANGED loopVars

\* re_extend_cores: the secondary core, if the pad is wide enough for one
ExtSecondary ==
    /\ call.op = "extend" /\ call.phase = "secondary"
    /\ IF call.pad >= call.mink
       THEN \E r \in {find_best_secondary_re(call.prim_re, call.pad, call.mink,
                           call.maxk, call.ngen, call.log_add_pthresh,
                           call.use_consensus, call.pos, call.neg, call.given_only)} :
                call' = [call EXCEPT !.scnd = r, !.re = r.re, !.raised = r.raised,
                                     !.phase = IF r.raised # "" THEN "raised" ELSE "pad"]
       ELSE call' = [call EXCEPT !.re = call.prim_re, !.phase = "pad"]
    /\ UNCHANGED loopVars

\* re_extend_cores: the pad out to maxw and the call of the refiner
ExtPadAndRefine ==
    /\ call.op = "extend" /\ call.phase = "pad"
    /\ LET pad == call.maxw - Len(call.re)
           left_pad == pad \div 2
           right_pad == pad - left_pad
       IN call' = [call EXCEPT
                    !.pad = pad,
                    !.re = Ns(left_pad) \o call.re \o Ns(right_pad),
                    !.refiner = IF call.use_consensus THEN "refine_from_consensus"
                                ELSE "refine_from_re",
                    !.phase = "refine"]
    /\ UNCHANGED loopVars

NextExtend == ExtFindCores \/ ExtPrimary \/ ExtSecondary \/ ExtPadAndRefine

SpecExtend == InitExtend /\ [][NextExtend]_vars

\* the pattern has been handed to the refiner
HandedToRefiner == call.op = "extend" /\ call.phase = "refine"

\* C24: the pattern that the core extender hands to the refiner has width
\* exactly maxw.
C24_HandsWidthMaxw == HandedToRefiner => Len(call.re) = call.maxw

\* what holds of the hand-over: the secondary core found in the left flank,
\* or no secondary core at all, gives a pattern of width maxw, padded with
\* floor(r/2) N on the left and r - floor(r/2) N on the right
C24_LeftOrNoneHandsWidthMaxw ==
    (HandedToRefiner /\ (call.scnd = <<>> \/ call.scnd.side = "left")) =>
        /\ Len(call.re) = call.maxw
        /\ call.pad >= 0
        /\ \A k \in 1..(call.pad \div 2) : call.re[k] = "N"
        /\ \A k \in 1..(call.pad - call.pad \div 2) :
              call.re[call.maxw + 1 - k] = "N"

\* a secondary core of width 2 was taken from the right flank at an offset
\* where it does not fit, and the pattern handed over is wider than maxw
C24_TooWide ==
    /\ HandedToRefiner /\ call.scnd # <<>> /\ call.scnd.side = "right"
    /\ Len(call.re) > call.maxw

\* a secondary core was found in a flank and the combination was padded on
\* both sides
C24_Witness ==
    /\ HandedToRefiner /\ call.scnd # <<>> /\ call.scnd.side = "left"
    /\ call.pad >= 1


-----------------------------------------------------------------------------
(* Erasure and the strand mode of the run.                                 *)

\* position k (1-based) of s lies in a span of s that pat matches
InSpanOf(pat, s, k) ==
    \E j \in 0..(Len(s) - Len(pat)) : j < k /\ k <= j + Len(pat) /\ MatchAt(pat, s, j)

\* the characters of the positive sequences replaced by the erasure of this
\* iteration, as pairs (sequence, position)
ErasedNow ==
    {ik \in UNION {{<<i, k>> : k \in 1..Len(pos_seqs[i])} : i \in 1..Len(pos_seqs)} :
        pos_seqs[ik[1]][ik[2]] # hist.pos_at_search[ik[1]][ik[2]]}

\* C25: erasure follows the strand mode: in single-strand mode every
\* character replaced by N lies in a span that matches the winning pattern on
\* the given strand; in both-strand mode it lies in a span that matches the
\* pattern or its reverse complement.
C25_ErasureFollowsStrandMode ==
    pc = "erase_neg" =>
        \A ik \in ErasedNow :
            \/ InSpanOf(best.best_re, hist.pos_at_search[ik[1]], ik[2])
            \/ /\ ~cfg.given_only
               /\ InSpanOf(get_rc(best.best_re), hist.pos_at_search[ik[1]], ik[2])

\* what erase_re does in either mode: every character replaced lies in a span
\* that matches the pattern or its reverse complement, and no match of either
\* is left
C25_ErasesBothStrandsAlways ==
    pc = "erase_neg" =>
        /\ \A ik \in ErasedNow :
              \/ InSpanOf(best.best_re, hist.pos_at_search[ik[1]], ik[2])
              \/ InSpanOf(get_rc(best.best_re), hist.pos_at_search[ik[1]], ik[2])
        /\ \A i \in 1..Len(pos_seqs) :
              ~re_search(make_dna_re(best.best_re, FALSE, FALSE), pos_seqs[i])

\* in single-strand mode a character was replaced that lies in no span
\* matching the winning pattern on the given strand
C25_ReverseStrandErased ==
    /\ pc = "erase_neg" /\ cfg.given_only
    /\ \E ik \in ErasedNow :
          ~InSpanOf(best.best_re, hist.pos_at_search[ik[1]], ik[2])


-----------------------------------------------------------------------------
(* The find-erase loop without a limit on the motifs or on the time.       *)

\* the values of ethresh that are tried: 1/4, 2 and 64
UnlimitedThresholds == {<<1, 4>>, <<2, 1>>, <<64, 1>>}

UnlimitedConfigs ==
    [given_only : BOOLEAN,
     minw : 1..LoopMaxW, maxw : {LoopMaxW}, mink : {1}, maxk : {LoopMaxW},
     ngen : {GenBeam},
     ethresh : UnlimitedThresholds,
     log_add_pthresh : {<<1, 1>>},
     max_motifs : {None},
     max_time : {None}]

InitUnlimited ==
    /\ call = NoCall
    /\ cfg \in UnlimitedConfigs
    /\ pos_seqs \in [1..2 -> StringsUpTo(LoopLetters, LoopSeqLen) \ {<<>>}]
    /\ neg_seqs \in [1..1 -> [1..1 -> LoopLetters]]
    /\ unerased_pos_seqs = pos_seqs
    /\ unerased_neg_seqs = neg_seqs
    /\ nmotifs = 0
    /\ stop_cause = ""
    /\ pc = "loop_top"
    /\ re_pvalues = <<>>
    /\ best = NoBest
    /\ now = 0
    /\ alarm = 0
    /\ xml_out = <<>>
    /\ hist = NoHist

\* the steps of main when max_time is None: no alarm is armed and the clock
\* is not read
NextUnlimited ==
    \/ EnableTimeoutSearch
    \/ FindCores
    \/ OutputBestRe
    \/ MakePwm
    \/ DisableTimeoutBeforePrint
    \/ WriteXmlMotif
    \/ WriteLogos
    \/ FindPrintReturn
    \/ CheckStop
    \/ EnableTimeoutErase
    \/ ErasePos
    \/ EraseNeg
    \/ DisableTimeoutAfterErase
    \/ WriteXmlBottom

\* the steps other than the two that compute a table or search it
StepsBesideSearch ==
    \/ EnableTimeoutSearch
    \/ MakePwm
    \/ DisableTimeoutBeforePrint
    \/ WriteXmlMotif
    \/ WriteLogos
    \/ FindPrintReturn
    \/ CheckStop
    \/ EnableTimeoutErase
    \/ ErasePos
    \/ EraseNeg
    \/ DisableTimeoutAfterErase
    \/ WriteXmlBottom

\* main is one sequential thread: a step that can be taken is taken.
\* FindCores is enabled exactly at pc = find_cores and OutputBestRe exactly at
\* pc = output_best, and each of them leaves its position, so weak fairness
\* of these two says that pc does not stay there for ever.
SpecUnlimited ==
    /\ InitUnlimited /\ [][NextUnlimited]_vars
    /\ WF_vars(StepsBesideSearch)
    /\ []<>(pc # "find_cores")
    /\ []<>(pc # "output_best")

\* the number of characters other than N in a list of sequences
RECURSIVE NonN(_)
NonN(seqs) ==
    IF seqs = <<>> THEN 0
    ELSE Cardinality({k \in 1..Len(Head(seqs)) : Head(seqs)[k] # "N"}) + NonN(Tail(seqs))

\* C26: without a limit on the motifs or on the time, and with maxw <= maxk,
\* the loop ends with the stop cause evalue; whenever the loop comes back to
\* its top after a motif was emitted, the sequence sets hold fewer characters
\* other than N than when the search of that motif started.
C26_TerminatesWithEvalue ==
    /\ <>(pc = "done" /\ stop_cause = "evalue")
    /\ [](pc \in {"erase_disable", "loop_top"} /\ hist.searches >= 1 =>
            /\ hist.emitted
            /\ NonN(pos_seqs) + NonN(neg_seqs)
                  < NonN(hist.pos_at_search) + NonN(hist.neg_at_search))
    /\ [](pc = "done" => stop_cause = "evalue")

\* the run has ended after two motifs, the last search having found nothing
\* but N in the positive sequences
C26_Witness ==
    /\ pc = "done" /\ stop_cause = "evalue" /\ nmotifs = 2
    /\ cfg.max_motifs = None /\ cfg.max_time = None
    /\ NonN(pos_seqs) = 0


-----------------------------------------------------------------------------
(* The alarm after the loop.                                               *)

\* C27: once the find-erase loop has been left no alarm is pending, and no
\* TimeoutError is raised outside the two try blocks of the loop.
C27_NoAlarmAfterLoop ==
    /\ pc \in LoopLeft => alarm = 0
    /\ pc # "crashed"

\* what holds of the alarm: it is pending after the loop only when the loop
\* was left through the E-value test, and no alarm is pending after a stop by
\* the motif count or by the time limit
C27_AlarmPendingOnlyAfterEvalueStop ==
    (pc \in LoopLeft /\ alarm # 0) => (stop_cause = "evalue" /\ ~best.significant)

\* the loop was left by the motif count with a time limit set
C27_CountStopWithTimeLimit ==
    /\ pc = "after_loop" /\ stop_cause = "count" /\ cfg.max_time # None /\ alarm = 0

\* the final report is about to be written with the alarm of the last search
\* still armed
C27_AlarmPendingAfterLoop ==
    /\ pc = "after_loop" /\ stop_cause = "evalue" /\ alarm # 0


-----------------------------------------------------------------------------
(* The widths with which the loop is entered.                              *)

\* the options were accepted: main goes on to the discovery loop
WidthsAccepted == call.op = "widths" /\ call.phase = "accepted"

\* C28: whenever the discovery loop is entered, the normalized widths satisfy
\* minw <= maxw and mink <= maxk <= maxw.
C28_NormalizedWidthsOrdered ==
    WidthsAccepted =>
        /\ call.minw <= call.maxw
        /\ call.mink <= call.maxk
        /\ call.maxk <= call.maxw

\* what holds of the normalized widths: mink <= maxk <= maxw always, and
\* minw <= maxw when -minw was given or no core width was clamped
C28_CoreWidthsOrdered ==
    WidthsAccepted =>
        /\ call.mink <= call.maxk
        /\ call.maxk <= call.maxw
        /\ (call.given.minw # NotGiven \/ call.given.mink <= call.maxw) =>
              call.minw <= call.maxw

\* the loop is entered with minw > maxw: -minw was not given and took the
\* value of mink before mink was clamped to maxw
C28_MinwAboveMaxw ==
    /\ WidthsAccepted /\ call.minw > call.maxw
    /\ call.given.minw = NotGiven /\ call.given.mink > call.maxw


-----------------------------------------------------------------------------
(* The find-erase loop under a limit on the number of motifs.              *)

MaxMotifLimit == 2  \* the values of -m tried are 0..MaxMotifLimit

MotifLimitConfigs ==
    [given_only : BOOLEAN,
     minw : 1..LoopMaxW, maxw : {LoopMaxW}, mink : {1}, maxk : {LoopMaxW},
     ngen : {GenBeam},
     ethresh : {<<2, 1>>, <<64, 1>>},
     log_add_pthresh : {<<1, 1>>},
     max_motifs : 0..MaxMotifLimit,
     max_time : {None}]

InitMotifLimit ==
    /\ call = NoCall
    /\ cfg \in MotifLimitConfigs
    /\ pos_seqs \in [1..2 -> StringsUpTo(LoopLetters, LoopSeqLen) \ {<<>>}]
    /\ neg_seqs \in [1..1 -> [1..1 -> LoopLetters]]
    /\ unerased_pos_seqs = pos_seqs
    /\ unerased_neg_seqs = neg_seqs
    /\ nmotifs = 0
    /\ stop_cause = ""
    /\ pc = "loop_top"
    /\ re_pvalues = <<>>
    /\ best = NoBest
    /\ now = 0
    /\ alarm = 0
    /\ xml_out = <<>>
    /\ hist = NoHist

SpecMotifLimit == InitMotifLimit /\ [][NextUnlimited]_vars

\* C29: for every motif-count limit max_motifs >= 0 the number of motifs
\* emitted never exceeds max_motifs.
C29_EmittedWithinLimit ==
    (cfg.max_motifs # None /\ cfg.max_motifs >= 0) => Len(xml_out) <= cfg.max_motifs

\* what holds of the limit: a limit of at least 1 is never exceeded, and the
\* loop stops by the count as soon as it is reached
C29_PositiveLimitKept ==
    (cfg.max_motifs # None /\ cfg.max_motifs >= 1) =>
        /\ Len(xml_out) <= cfg.max_motifs
        /\ nmotifs <= cfg.max_motifs
        /\ nmotifs = cfg.max_motifs => stop_cause = "count"

\* a limit of two motifs was reached and stopped the loop
C29_LimitReached ==
    /\ cfg.max_motifs = 2 /\ Len(xml_out) = 2 /\ stop_cause = "count" /\ pc = "done"

\* under -m 0 a motif was emitted and the loop went on to erase it
C29_EmittedUnderLimitZero ==
    /\ cfg.max_motifs = 0 /\ Len(xml_out) >= 1 /\ pc = "erase_pos"


-----------------------------------------------------------------------------
(* The two E-values of the first motif.                                    *)

\* output_best_re has chosen a pattern in the first iteration of the loop
FirstBestChosen == hist.searches = 1 /\ best.found /\ pos_seqs = unerased_pos_seqs

\* C30: in the first iteration, before any erasure, the unerased E-value
\* computed for the best pattern equals its E-value.
C30_FirstUnerasedEvalueEqual ==
    FirstBestChosen => LogEq(best.unerased_log_Evalue, best.log_Evalue)

\* what holds in the first iteration: the two E-values are equal whenever the
\* record of the best pattern is the exact one
C30_EqualWhenRecordExact ==
    (FirstBestChosen /\ best.best_re \in DOMAIN re_pvalues
        /\ re_pvalues[best.best_re] =
              compute_exact_re_enrichment(best.best_re, pos_seqs, neg_seqs, cfg.given_only))
      => LogEq(best.unerased_log_Evalue, best.log_Evalue)

\* the first motif is written with an E-value below its unerased E-value
C30_FirstEvaluesDiffer ==
    /\ FirstBestChosen /\ pc = "write_logos"
    /\ LogLess(best.log_Evalue, best.unerased_log_Evalue)

\* the first motif is written with a record that is the exact one
C30_ExactFirstMotif ==
    /\ FirstBestChosen /\ pc = "write_logos" /\ ~IsExact(best.best_re)
    /\ re_pvalues[best.best_re] =
          compute_exact_re_enrichment(best.best_re, pos_seqs, neg_seqs, cfg.given_only)

=============================================================================
